---------------------------- MODULE Spec2Model ----------------------------
(***************************************************************************)
(* Model of the diff-segmentation core of neo-reviewer                     *)
(* (cli/src/diff/parser.rs, cli/src/diff/types.rs, parse_git_diff in       *)
(* cli/src/commands/diff.rs).                                              *)
(*                                                                         *)
(* parse_patch is modelled as a state machine that consumes one input      *)
(* line per step.  A line of text is a sequence of one-character strings,  *)
(* so that prefix tests, the hunk-header regular expression and the        *)
(* decimal parse are computed on the characters, as the code does.         *)
(*                                                                         *)
(* u32 values are held as 32-bit patterns.  TLC integers are 32-bit        *)
(* two's complement, so the patterns 2^31 .. 2^32-1 read as negative       *)
(* integers and u32::MAX reads as -1; every value below 2^31 reads as      *)
(* itself.  U32Le is the unsigned order on these patterns.                 *)
(***************************************************************************)
EXTENDS Integers, Sequences, FiniteSets, TLC

VARIABLES
    lines,            \* parser.rs:71   let lines: Vec<&str> = patch.lines().collect()
    i,                \* parser.rs:72   line cursor (number of lines consumed)
    pc,               \* position in parse_patch: "outer", "inner", "done", "panicked"
    blocks,           \* parser.rs:68   the Vec<ChangeBlock> being returned
    new_line_num,     \* parser.rs:83
    old_line_num,     \* parser.rs:84
    builder,          \* parser.rs:85
    in_change_block,  \* parser.rs:86
    src_open,         \* history: input line indices absorbed by `builder`
    src_blocks,       \* history: the same, for every element of `blocks`
    diff_lines,       \* diff.rs:288   let lines: Vec<&str> = diff_output.lines().collect()
    di,               \* diff.rs:289   line cursor of parse_git_diff
    gpc,              \* position in parse_git_diff: "none" when it is not running
    path,             \* diff.rs:293
    status,           \* diff.rs:296
    patch_lines,      \* diff.rs:316
    additions,        \* diff.rs:317
    deletions,        \* diff.rs:318
    files,            \* diff.rs:281   the Vec<ReviewFile> being returned
    opts,             \* diff.rs:39    the LocalDiffCliOpts of get_local_diff
    lpc,              \* position in diff::run / get_local_diff: "none" when not running
    mode,             \* diff.rs:44
    diff_target,      \* diff.rs:45    Option<String>: << >> is None, << t >> is Some(t)
    local_files,      \* diff.rs:48    the files of the DiffResponse
    fpc,              \* position in fetch::run: "none" when it is not running
    present,          \* the commits the local repository holds
    pr_files,         \* fetch.rs:20   the files of the FetchResponse
    git_log,          \* history: the git processes spawned, with their outcome
    printed           \* what println! has written to stdout

\* the state of parse_git_diff
gvars == << diff_lines, di, gpc, path, status, patch_lines, additions,
            deletions, files >>

\* the state of the commands `diff` and `fetch`
cvars == << opts, lpc, mode, diff_target, local_files, fpc, present,
            pr_files, git_log, printed >>

vars == << lines, i, pc, blocks, new_line_num, old_line_num, builder,
           in_change_block, src_open, src_blocks, gvars, cvars >>

\* diff.rs:11-18: #[derive(Default)] of LocalDiffCliOpts
LocalDiffCliOptsDefault ==
    [ target |-> << >>, cached_only |-> FALSE, uncached_only |-> FALSE,
      merge_base |-> FALSE, tracked_only |-> FALSE ]

\* the parsers called on their own: no command is running
CommandsIdle ==
    /\ opts = LocalDiffCliOptsDefault
    /\ lpc = "none"
    /\ mode = "none"
    /\ diff_target = << >>
    /\ local_files = << >>
    /\ fpc = "none"
    /\ present = { }
    /\ pr_files = << >>
    /\ git_log = << >>
    /\ printed = << >>

---------------------------------------------------------------------------
(* Bounds of the model                                                     *)

\* longest hunk body (lines after the first hunk header) of an input
MaxBody == 4

---------------------------------------------------------------------------
(* Text                                                                    *)

StartsWith(s, p) == Len(s) >= Len(p) /\ SubSeq(s, 1, Len(p)) = p

AT2 == << "@", "@" >>
DIFF_SP == << "d", "i", "f", "f", " " >>
NO_NEWLINE == << "\\", " ", "N", "o", " ", "n", "e", "w", "l", "i", "n", "e" >>

Digits == { "0", "1", "2", "3", "4", "5", "6", "7", "8", "9" }

DigitVal(c) ==
    CASE c = "0" -> 0 [] c = "1" -> 1 [] c = "2" -> 2 [] c = "3" -> 3
      [] c = "4" -> 4 [] c = "5" -> 5 [] c = "6" -> 6 [] c = "7" -> 7
      [] c = "8" -> 8 [] c = "9" -> 9

IsSpace(c) == c \in { " ", "\t" }

\* first position >= p of s that holds no whitespace (regex \s*)
RECURSIVE SkipSpaces(_, _)
SkipSpaces(s, p) ==
    IF p <= Len(s) /\ IsSpace(s[p]) THEN SkipSpaces(s, p + 1) ELSE p

\* first position >= p of s that holds no digit (regex \d*)
RECURSIVE SkipDigits(_, _)
SkipDigits(s, p) ==
    IF p <= Len(s) /\ s[p] \in Digits THEN SkipDigits(s, p + 1) ELSE p

Lit(s, p, c) == p <= Len(s) /\ s[p] = c

\* mutant: the count is not optional
NumberWithCount_required(s, p) ==
    LET e  == SkipDigits(s, p)
        ce == SkipDigits(s, e + 1)
    IN  [ ok   |-> e > p /\ Lit(s, e, ",") /\ ce > e + 1,
          from |-> p,
          to   |-> e - 1,
          next |-> IF Lit(s, e, ",") /\ ce > e + 1 THEN ce ELSE e ]

\* regex  (\d+)(?:,(\d+))?  at position p: [ok, from, to, next]
NumberWithCount(s, p) ==
    LET e  == SkipDigits(s, p)
        ce == SkipDigits(s, e + 1)
    IN  [ ok   |-> e > p,
          from |-> p,
          to   |-> e - 1,
          next |-> IF Lit(s, e, ",") /\ ce > e + 1 THEN ce ELSE e ]

\* ^@@\s*-(\d+)(?:,(\d+))?\s*\+(\d+)(?:,(\d+))?\s*@@
\* [matched, old_start, new_start]: capture groups 1 and 3 as digit texts
\* the match runs left to right; each stage holds what the stages before it
\* found (as a one-element set, so that every stage is worked out once)
hunk_header_re(line) ==
    LET s1 == { [ p1 |-> SkipSpaces(line, 3) ] }
        s2 == { [ p1 |-> m.p1, n1 |-> NumberWithCount(line, m.p1 + 1) ] : m \in s1 }
        s3 == { [ p1 |-> m.p1, n1 |-> m.n1,
                  p2 |-> SkipSpaces(line, m.n1.next) ] : m \in s2 }
        s4 == { [ p1 |-> m.p1, n1 |-> m.n1, p2 |-> m.p2,
                  n2 |-> NumberWithCount(line, m.p2 + 1) ] : m \in s3 }
        s5 == { [ p1 |-> m.p1, n1 |-> m.n1, p2 |-> m.p2, n2 |-> m.n2,
                  p3 |-> SkipSpaces(line, m.n2.next) ] : m \in s4 }
        ok(m) == /\ StartsWith(line, AT2)
                 /\ Lit(line, m.p1, "-") /\ m.n1.ok
                 /\ Lit(line, m.p2, "+") /\ m.n2.ok
                 /\ Lit(line, m.p3, "@") /\ Lit(line, m.p3 + 1, "@")
    IN  CHOOSE caps \in
          { IF ok(m)
            THEN [ matched |-> TRUE,
                   old_start |-> SubSeq(line, m.n1.from, m.n1.to),
                   new_start |-> SubSeq(line, m.n2.from, m.n2.to) ]
            ELSE [ matched |-> FALSE, old_start |-> << >>, new_start |-> << >> ]
            : m \in s5 } : TRUE

---------------------------------------------------------------------------
(* u32                                                                     *)

LimbBase == 2 ^ 16

\* the 32-bit pattern hi * 2^16 + lo
U32OfLimbs(hi, lo) ==
    IF hi < LimbBase \div 2 THEN hi * LimbBase + lo
                            ELSE (hi - LimbBase) * LimbBase + lo

U32_MAX == U32OfLimbs(LimbBase - 1, LimbBase - 1)

\* unsigned order on 32-bit patterns
U32Le(a, b) == IF (a >= 0) = (b >= 0) THEN a <= b ELSE a >= 0

\* decimal accumulation in two 16-bit limbs; ok is FALSE once the value
\* has left the u32 range
RECURSIVE ParseLimbs(_, _, _)
ParseLimbs(ds, k, acc) ==
    IF k > Len(ds) THEN acc
    ELSE LET t == acc.lo * 10 + DigitVal(ds[k])
             h == acc.hi * 10 + (t \div LimbBase)
         IN  ParseLimbs(ds, k + 1,
                        [ hi |-> h % LimbBase,
                          lo |-> t % LimbBase,
                          ok |-> acc.ok /\ h < LimbBase ])

\* caps[n].parse::<u32>().unwrap_or(0) on a non-empty digit text
ParseU32OrZero(ds) ==
    LET r == ParseLimbs(ds, 1, [ hi |-> 0, lo |-> 0, ok |-> TRUE ])
    IN  IF r.ok THEN U32OfLimbs(r.hi, r.lo) ELSE 0

\* x + 1 on 32-bit patterns, wrapping
WrappingInc(x) ==
    IF x = U32_MAX THEN 0
    ELSE IF x = 2147483647 THEN (0 - 2147483647) - 1
    ELSE x + 1

\* `x += 1` on a u32: a build with overflow checks panics at u32::MAX, a
\* build without them wraps
PlusOne(x) ==
    IF x = U32_MAX
    THEN { [ panic |-> TRUE, v |-> x ], [ panic |-> FALSE, v |-> WrappingInc(x) ] }
    ELSE { [ panic |-> FALSE, v |-> WrappingInc(x) ] }

---------------------------------------------------------------------------
(* BlockBuilder                                                            *)

BlockBuilderDefault ==
    [ start_line      |-> 0,
      end_line        |-> 0,
      added_lines     |-> << >>,
      changed_lines   |-> << >>,
      deletion_groups |-> << >>,
      old_to_new      |-> << >>,
      has_additions   |-> FALSE,
      has_deletions   |-> FALSE,
      initialized     |-> FALSE ]

\* mutant: end_line is not moved once the block is open
ensure_initialized_keeps_end(b, line) ==
    IF ~b.initialized
    THEN [ b EXCEPT !.start_line = line, !.end_line = line, !.initialized = TRUE ]
    ELSE b

\* mutant: every call moves start_line as well
ensure_initialized_moves_start(b, line) ==
    [ b EXCEPT !.start_line = line, !.end_line = line, !.initialized = TRUE ]

ensure_initialized(b, line) ==
    IF ~b.initialized
    THEN [ b EXCEPT !.start_line = line, !.end_line = line, !.initialized = TRUE ]
    ELSE [ b EXCEPT !.end_line = line ]

\* mutant: every deletion opens a group of its own
push_deletion_always_new(b, anchor_line, old_line, old_line_number) ==
    [ b EXCEPT
        !.deletion_groups =
            Append(@, [ anchor_line      |-> anchor_line,
                        old_lines        |-> << old_line >>,
                        old_line_numbers |-> << old_line_number >> ]) ]

\* mutant: a new group is put in front of the list instead of at its end
push_deletion_in_front(b, anchor_line, old_line, old_line_number) ==
    LET n == Len(b.deletion_groups)
    IN  IF n > 0 /\ b.deletion_groups[n].anchor_line = anchor_line
        THEN [ b EXCEPT
                 !.deletion_groups[n].old_lines = Append(@, old_line),
                 !.deletion_groups[n].old_line_numbers = Append(@, old_line_number) ]
        ELSE [ b EXCEPT
                 !.deletion_groups =
                     << [ anchor_line      |-> anchor_line,
                          old_lines        |-> << old_line >>,
                          old_line_numbers |-> << old_line_number >> ] >> \o @ ]

\* mutant: a deletion joining a group leaves its number out
push_deletion_text_only(b, anchor_line, old_line, old_line_number) ==
    LET n == Len(b.deletion_groups)
    IN  IF n > 0 /\ b.deletion_groups[n].anchor_line = anchor_line
        THEN [ b EXCEPT
                 !.deletion_groups[n].old_lines = Append(@, old_line) ]
        ELSE [ b EXCEPT
                 !.deletion_groups =
                     Append(@, [ anchor_line      |-> anchor_line,
                                 old_lines        |-> << old_line >>,
                                 old_line_numbers |-> << old_line_number >> ]) ]

push_deletion(b, anchor_line, old_line, old_line_number) ==
    LET n == Len(b.deletion_groups)
    IN  IF n > 0 /\ b.deletion_groups[n].anchor_line = anchor_line
        THEN [ b EXCEPT
                 !.deletion_groups[n].old_lines = Append(@, old_line),
                 !.deletion_groups[n].old_line_numbers = Append(@, old_line_number) ]
        ELSE [ b EXCEPT
                 !.deletion_groups =
                     Append(@, [ anchor_line      |-> anchor_line,
                                 old_lines        |-> << old_line >>,
                                 old_line_numbers |-> << old_line_number >> ]) ]

\* mutant: the kind is decided by has_additions alone
into_change_block_two_kinds(b) ==
    IF ~b.initialized \/ (~b.has_additions /\ ~b.has_deletions)
    THEN << >>
    ELSE << [ start_line      |-> b.start_line,
              end_line        |-> b.end_line,
              kind            |-> IF b.has_additions THEN "Add" ELSE "Delete",
              added_lines     |-> b.added_lines,
              changed_lines   |-> b.changed_lines,
              deletion_groups |-> b.deletion_groups,
              old_to_new      |-> b.old_to_new ] >>

\* mutant: a builder that saw no change line still yields a block
into_change_block_emits_empty(b) ==
    << [ start_line      |-> b.start_line,
         end_line        |-> b.end_line,
         kind            |-> IF b.has_additions /\ b.has_deletions THEN "Change"
                             ELSE IF b.has_additions THEN "Add"
                             ELSE "Delete",
         added_lines     |-> b.added_lines,
         changed_lines   |-> b.changed_lines,
         deletion_groups |-> b.deletion_groups,
         old_to_new      |-> b.old_to_new ] >>

\* Option<ChangeBlock> as a sequence of zero or one block
into_change_block(b) ==
    IF ~b.initialized \/ (~b.has_additions /\ ~b.has_deletions)
    THEN << >>
    ELSE << [ start_line      |-> b.start_line,
              end_line        |-> b.end_line,
              kind            |-> IF b.has_additions /\ b.has_deletions THEN "Change"
                                  ELSE IF b.has_additions THEN "Add"
                                  ELSE "Delete",
              added_lines     |-> b.added_lines,
              changed_lines   |-> b.changed_lines,
              deletion_groups |-> b.deletion_groups,
              old_to_new      |-> b.old_to_new ] >>

\* mutant: the old_to_new entry is logged with the old-file pointer after
\* its increment
on_deletion_logs_after_inc(b, stripped, new_num, old_num) ==
    LET b1 == ensure_initialized(b, new_num)
        b2 == [ b1 EXCEPT !.has_deletions = TRUE ]
        b3 == push_deletion(b2, new_num, stripped, old_num)
    IN  [ b3 EXCEPT !.old_to_new =
                        Append(@, [ old_line |-> old_num + 1, new_line |-> new_num ]) ]

\* mutant: old_to_new gets an entry only when the deletion opens a group
on_deletion_logs_per_group(b, stripped, new_num, old_num) ==
    LET b1 == ensure_initialized(b, new_num)
        b2 == [ b1 EXCEPT !.has_deletions = TRUE ]
        b3 == push_deletion(b2, new_num, stripped, old_num)
    IN  IF Len(b3.deletion_groups) > Len(b.deletion_groups)
        THEN [ b3 EXCEPT !.old_to_new =
                             Append(@, [ old_line |-> old_num, new_line |-> new_num ]) ]
        ELSE b3

\* mutant: the block is positioned one line after the new-file pointer
on_deletion_positions_after(b, stripped, new_num, old_num) ==
    LET b1 == ensure_initialized(b, new_num + 1)
        b2 == [ b1 EXCEPT !.has_deletions = TRUE ]
        b3 == push_deletion(b2, new_num, stripped, old_num)
    IN  [ b3 EXCEPT !.old_to_new =
                        Append(@, [ old_line |-> old_num, new_line |-> new_num ]) ]

\* mutant: the correspondence points at the line after the anchor
on_deletion_maps_next_line(b, stripped, new_num, old_num) ==
    LET b1 == ensure_initialized(b, new_num)
        b2 == [ b1 EXCEPT !.has_deletions = TRUE ]
        b3 == push_deletion(b2, new_num, stripped, old_num)
    IN  [ b3 EXCEPT !.old_to_new =
                        Append(@, [ old_line |-> old_num, new_line |-> new_num + 1 ]) ]

\* the builder after the deletion branch, parser.rs:100-107
on_deletion(b, stripped, new_num, old_num) ==
    LET b1 == ensure_initialized(b, new_num)
        b2 == [ b1 EXCEPT !.has_deletions = TRUE ]
        b3 == push_deletion(b2, new_num, stripped, old_num)
    IN  [ b3 EXCEPT !.old_to_new =
                        Append(@, [ old_line |-> old_num, new_line |-> new_num ]) ]

\* mutant: the added line is recorded after the pointer's increment
on_addition_after_inc(b, new_num, in_change) ==
    LET b1 == ensure_initialized(b, new_num)
        b2 == [ b1 EXCEPT !.has_additions = TRUE,
                          !.added_lines = Append(@, new_num + 1) ]
    IN  IF in_change
        THEN [ b2 EXCEPT !.changed_lines = Append(@, new_num + 1) ]
        ELSE b2

\* mutant: changed_lines records the pointer after its increment
on_addition_changed_after_inc(b, new_num, in_change) ==
    LET b1 == ensure_initialized(b, new_num)
        b2 == [ b1 EXCEPT !.has_additions = TRUE,
                          !.added_lines = Append(@, new_num) ]
    IN  IF in_change
        THEN [ b2 EXCEPT !.changed_lines = Append(@, new_num + 1) ]
        ELSE b2

\* mutant: the in-change flag is not consulted
on_addition_always_changed(b, new_num, in_change) ==
    LET b1 == ensure_initialized(b, new_num)
        b2 == [ b1 EXCEPT !.has_additions = TRUE,
                          !.added_lines = Append(@, new_num) ]
    IN  [ b2 EXCEPT !.changed_lines = Append(@, new_num) ]

\* the builder after the addition branch, parser.rs:110-116
on_addition(b, new_num, in_change) ==
    LET b1 == ensure_initialized(b, new_num)
        b2 == [ b1 EXCEPT !.has_additions = TRUE,
                          !.added_lines = Append(@, new_num) ]
    IN  IF in_change
        THEN [ b2 EXCEPT !.changed_lines = Append(@, new_num) ]
        ELSE b2

---------------------------------------------------------------------------
(* Line tests of the hunk-body loop, in the order the code makes them      *)

\* mutant: only a valid hunk header, or a "diff " line, ends a hunk body
EndsHunk_valid_only(l) == hunk_header_re(l).matched \/ StartsWith(l, DIFF_SP)

EndsHunk(l)     == StartsWith(l, AT2) \/ StartsWith(l, DIFF_SP)
IsNoNewline(l)  == StartsWith(l, NO_NEWLINE)
IsDeletion(l)   == StartsWith(l, << "-" >>)
IsAddition(l)   == StartsWith(l, << "+" >>)
\* mutant: an empty line is not taken for a context line
IsContext_space_only(l) == StartsWith(l, << " " >>)

IsContext(l)    == StartsWith(l, << " " >>) \/ l = << >>

SrcEmpty == [ adds |-> << >>, dels |-> << >> ]

---------------------------------------------------------------------------
(* Inputs                                                                  *)

H1 == AT2 \o << " ", "-", "1", ",", "3", " ", "+", "1", ",", "4", " " >> \o AT2
H2 == AT2 \o << " ", "-", "1", "0", ",", "3", " ", "+", "1", "1", ",", "2", " " >> \o AT2

HeaderLines == { H1, H2 }

\* parser.rs:75: hunk_header_re.captures(line); the captures of the header
\* lines of the inputs are worked out once and looked up afterwards
HeaderCaptures == [ l \in HeaderLines |-> hunk_header_re(l) ]

captures(line) ==
    IF line \in HeaderLines THEN HeaderCaptures[line] ELSE hunk_header_re(line)

BodyLines ==
    { << "+", "a" >>,
      << "-", "b" >>,
      << " ", "c" >>,
      << >>,
      NO_NEWLINE \o << " ", "a", "t" >>,
      << "i", "n", "d", "e", "x" >>,
      AT2 \o << " ", "x" >>,
      H2 }

SeqsUpTo(S, n) == UNION { [ 1 .. k -> S ] : k \in 0 .. n }

\* a hunk header followed by at most MaxBody further lines
Inputs == { << h >> \o body : h \in HeaderLines, body \in SeqsUpTo(BodyLines, MaxBody) }

---------------------------------------------------------------------------
(* parse_patch                                                             *)

\* parse_patch called on its own: parse_git_diff is not on the stack
GitNotRunning ==
    /\ diff_lines = << >>
    /\ di = 0
    /\ gpc = "none"
    /\ path = << >>
    /\ status = "Modified"
    /\ patch_lines = << >>
    /\ additions = 0
    /\ deletions = 0
    /\ files = << >>

Init ==
    /\ lines \in Inputs
    /\ i = 0
    /\ pc = "outer"
    /\ blocks = << >>
    /\ new_line_num = 0
    /\ old_line_num = 0
    /\ builder = BlockBuilderDefault
    /\ in_change_block = FALSE
    /\ src_open = SrcEmpty
    /\ src_blocks = << >>
    /\ GitNotRunning
    /\ CommandsIdle

\* mutant: the block open at the end of a hunk body is not flushed
LeaveHunk_no_flush ==
    /\ blocks' = blocks
    /\ src_blocks' = src_blocks
    /\ builder' = BlockBuilderDefault
    /\ src_open' = SrcEmpty
    /\ in_change_block' = FALSE
    /\ new_line_num' = 0
    /\ old_line_num' = 0
    /\ pc' = "outer"

\* the locals of the `if let Some(caps)` body go out of scope
LeaveHunk ==
    /\ blocks' = blocks \o into_change_block(builder)
    /\ src_blocks' = IF into_change_block(builder) # << >>
                     THEN Append(src_blocks, src_open) ELSE src_blocks
    /\ builder' = BlockBuilderDefault
    /\ src_open' = SrcEmpty
    /\ in_change_block' = FALSE
    /\ new_line_num' = 0
    /\ old_line_num' = 0
    /\ pc' = "outer"

\* parser.rs:74-86: the outer loop is at a line the hunk-header regex matches
OuterHunkHeader ==
    /\ pc = "outer" /\ i < Len(lines)
    /\ captures(lines[i + 1]).matched
    /\ LET caps == captures(lines[i + 1])
       IN  /\ old_line_num' = ParseU32OrZero(caps.old_start)
           /\ new_line_num' = ParseU32OrZero(caps.new_start)
    /\ i' = i + 1
    /\ builder' = BlockBuilderDefault
    /\ in_change_block' = FALSE
    /\ src_open' = SrcEmpty
    /\ pc' = "inner"
    /\ UNCHANGED << lines, blocks, src_blocks >>
    /\ UNCHANGED gvars
    /\ UNCHANGED cvars

\* parser.rs:134-136: any other line is skipped
OuterSkip ==
    /\ pc = "outer" /\ i < Len(lines)
    /\ ~captures(lines[i + 1]).matched
    /\ i' = i + 1
    /\ UNCHANGED << lines, pc, blocks, new_line_num, old_line_num, builder,
                    in_change_block, src_open, src_blocks >>
    /\ UNCHANGED gvars
    /\ UNCHANGED cvars

\* parser.rs:74,139: the outer loop ends and blocks is returned
Return ==
    /\ pc = "outer" /\ i = Len(lines)
    /\ pc' = "done"
    /\ UNCHANGED << lines, i, blocks, new_line_num, old_line_num, builder,
                    in_change_block, src_open, src_blocks >>
    /\ UNCHANGED gvars
    /\ UNCHANGED cvars

\* parser.rs:91-93,131-133: a line starting with "@@" or "diff " ends the
\* hunk body without being consumed
InnerBreak ==
    /\ pc = "inner" /\ i < Len(lines)
    /\ EndsHunk(lines[i + 1])
    /\ LeaveHunk
    /\ UNCHANGED << lines, i >>
    /\ UNCHANGED gvars
    /\ UNCHANGED cvars

\* parser.rs:88,131-133: the input ends inside a hunk body
InnerEnd ==
    /\ pc = "inner" /\ i = Len(lines)
    /\ LeaveHunk
    /\ UNCHANGED << lines, i >>
    /\ UNCHANGED gvars
    /\ UNCHANGED cvars

\* mutant: the marker line is handled like a context line
InnerNoNewline_as_context ==
    /\ pc = "inner" /\ i < Len(lines)
    /\ ~EndsHunk(lines[i + 1])
    /\ IsNoNewline(lines[i + 1])
    /\ blocks' = blocks \o into_change_block(builder)
    /\ src_blocks' = IF into_change_block(builder) # << >>
                     THEN Append(src_blocks, src_open) ELSE src_blocks
    /\ builder' = BlockBuilderDefault
    /\ src_open' = SrcEmpty
    /\ in_change_block' = FALSE
    /\ new_line_num' = WrappingInc(new_line_num)
    /\ old_line_num' = WrappingInc(old_line_num)
    /\ i' = i + 1
    /\ UNCHANGED << lines, pc >>
    /\ UNCHANGED gvars
    /\ UNCHANGED cvars

\* mutant: the marker branch continues without advancing the cursor
InnerNoNewline_no_advance ==
    /\ pc = "inner" /\ i < Len(lines)
    /\ ~EndsHunk(lines[i + 1])
    /\ IsNoNewline(lines[i + 1])
    /\ UNCHANGED << lines, i, pc, blocks, new_line_num, old_line_num, builder,
                    in_change_block, src_open, src_blocks >>
    /\ UNCHANGED gvars
    /\ UNCHANGED cvars

\* parser.rs:95-98
InnerNoNewline ==
    /\ pc = "inner" /\ i < Len(lines)
    /\ ~EndsHunk(lines[i + 1])
    /\ IsNoNewline(lines[i + 1])
    /\ i' = i + 1
    /\ UNCHANGED << lines, pc, blocks, new_line_num, old_line_num, builder,
                    in_change_block, src_open, src_blocks >>
    /\ UNCHANGED gvars
    /\ UNCHANGED cvars

\* mutant: a deletion advances the new-file pointer too
InnerDeletion_advances_new ==
    /\ pc = "inner" /\ i < Len(lines)
    /\ ~EndsHunk(lines[i + 1]) /\ ~IsNoNewline(lines[i + 1])
    /\ IsDeletion(lines[i + 1])
    /\ \E r \in PlusOne(old_line_num) :
         IF r.panic
         THEN /\ pc' = "panicked"
              /\ UNCHANGED << i, builder, in_change_block, old_line_num,
                              new_line_num, src_open >>
         ELSE /\ builder' = on_deletion(builder, Tail(lines[i + 1]),
                                        new_line_num, old_line_num)
              /\ src_open' = [ src_open EXCEPT !.dels = Append(@, i + 1) ]
              /\ in_change_block' = TRUE
              /\ old_line_num' = r.v
              /\ new_line_num' = WrappingInc(new_line_num)
              /\ i' = i + 1
              /\ pc' = pc
    /\ UNCHANGED << lines, blocks, src_blocks >>
    /\ UNCHANGED gvars
    /\ UNCHANGED cvars

\* parser.rs:100-109,128
InnerDeletion ==
    /\ pc = "inner" /\ i < Len(lines)
    /\ ~EndsHunk(lines[i + 1]) /\ ~IsNoNewline(lines[i + 1])
    /\ IsDeletion(lines[i + 1])
    /\ \E r \in PlusOne(old_line_num) :
         IF r.panic
         THEN /\ pc' = "panicked"
              /\ UNCHANGED << i, builder, in_change_block, old_line_num, src_open >>
         ELSE /\ builder' = on_deletion(builder, Tail(lines[i + 1]),
                                        new_line_num, old_line_num)
              /\ src_open' = [ src_open EXCEPT !.dels = Append(@, i + 1) ]
              /\ in_change_block' = TRUE
              /\ old_line_num' = r.v
              /\ i' = i + 1
              /\ pc' = pc
    /\ UNCHANGED << lines, blocks, new_line_num, src_blocks >>
    /\ UNCHANGED gvars
    /\ UNCHANGED cvars

\* mutant: an addition advances the old-file pointer too
InnerAddition_advances_old ==
    /\ pc = "inner" /\ i < Len(lines)
    /\ ~EndsHunk(lines[i + 1]) /\ ~IsNoNewline(lines[i + 1])
    /\ ~IsDeletion(lines[i + 1])
    /\ IsAddition(lines[i + 1])
    /\ \E r \in PlusOne(new_line_num) :
         IF r.panic
         THEN /\ pc' = "panicked"
              /\ UNCHANGED << i, builder, new_line_num, old_line_num, src_open >>
         ELSE /\ builder' = on_addition(builder, new_line_num, in_change_block)
              /\ src_open' = [ src_open EXCEPT !.adds = Append(@, i + 1) ]
              /\ new_line_num' = r.v
              /\ old_line_num' = WrappingInc(old_line_num)
              /\ i' = i + 1
              /\ pc' = pc
    /\ UNCHANGED << lines, blocks, in_change_block, src_blocks >>
    /\ UNCHANGED gvars
    /\ UNCHANGED cvars

\* parser.rs:110-117,128
InnerAddition ==
    /\ pc = "inner" /\ i < Len(lines)
    /\ ~EndsHunk(lines[i + 1]) /\ ~IsNoNewline(lines[i + 1])
    /\ ~IsDeletion(lines[i + 1])
    /\ IsAddition(lines[i + 1])
    /\ \E r \in PlusOne(new_line_num) :
         IF r.panic
         THEN /\ pc' = "panicked"
              /\ UNCHANGED << i, builder, new_line_num, src_open >>
         ELSE /\ builder' = on_addition(builder, new_line_num, in_change_block)
              /\ src_open' = [ src_open EXCEPT !.adds = Append(@, i + 1) ]
              /\ new_line_num' = r.v
              /\ i' = i + 1
              /\ pc' = pc
    /\ UNCHANGED << lines, blocks, old_line_num, in_change_block, src_blocks >>
    /\ UNCHANGED gvars
    /\ UNCHANGED cvars

\* mutant: a context line advances the old-file pointer only
InnerContext_keeps_new ==
    /\ pc = "inner" /\ i < Len(lines)
    /\ ~EndsHunk(lines[i + 1]) /\ ~IsNoNewline(lines[i + 1])
    /\ ~IsDeletion(lines[i + 1]) /\ ~IsAddition(lines[i + 1])
    /\ IsContext(lines[i + 1])
    /\ \E ro \in PlusOne(old_line_num) :
         IF ro.panic
         THEN /\ pc' = "panicked"
              /\ UNCHANGED << i, blocks, old_line_num, builder,
                              in_change_block, src_open, src_blocks >>
         ELSE /\ blocks' = blocks \o into_change_block(builder)
              /\ src_blocks' = IF into_change_block(builder) # << >>
                               THEN Append(src_blocks, src_open) ELSE src_blocks
              /\ builder' = BlockBuilderDefault
              /\ src_open' = SrcEmpty
              /\ in_change_block' = FALSE
              /\ old_line_num' = ro.v
              /\ i' = i + 1
              /\ pc' = pc
    /\ UNCHANGED << lines, new_line_num >>
    /\ UNCHANGED gvars
    /\ UNCHANGED cvars

\* parser.rs:118-126,128
InnerContext ==
    /\ pc = "inner" /\ i < Len(lines)
    /\ ~EndsHunk(lines[i + 1]) /\ ~IsNoNewline(lines[i + 1])
    /\ ~IsDeletion(lines[i + 1]) /\ ~IsAddition(lines[i + 1])
    /\ IsContext(lines[i + 1])
    /\ \E rn \in PlusOne(new_line_num), ro \in PlusOne(old_line_num) :
         IF rn.panic \/ ro.panic
         THEN /\ pc' = "panicked"
              /\ UNCHANGED << i, blocks, new_line_num, old_line_num, builder,
                              in_change_block, src_open, src_blocks >>
         ELSE /\ blocks' = blocks \o into_change_block(builder)
              /\ src_blocks' = IF into_change_block(builder) # << >>
                               THEN Append(src_blocks, src_open) ELSE src_blocks
              /\ builder' = BlockBuilderDefault
              /\ src_open' = SrcEmpty
              /\ in_change_block' = FALSE
              /\ new_line_num' = rn.v
              /\ old_line_num' = ro.v
              /\ i' = i + 1
              /\ pc' = pc
    /\ UNCHANGED lines
    /\ UNCHANGED gvars
    /\ UNCHANGED cvars

\* mutant: a line no branch takes clears the in-change flag
InnerOther_clears_flag ==
    /\ pc = "inner" /\ i < Len(lines)
    /\ ~EndsHunk(lines[i + 1]) /\ ~IsNoNewline(lines[i + 1])
    /\ ~IsDeletion(lines[i + 1]) /\ ~IsAddition(lines[i + 1])
    /\ ~IsContext(lines[i + 1])
    /\ i' = i + 1
    /\ in_change_block' = FALSE
    /\ UNCHANGED << lines, pc, blocks, new_line_num, old_line_num, builder,
                    src_open, src_blocks >>
    /\ UNCHANGED gvars
    /\ UNCHANGED cvars

\* parser.rs:118,126-128: a line no branch takes is only stepped over
InnerOther ==
    /\ pc = "inner" /\ i < Len(lines)
    /\ ~EndsHunk(lines[i + 1]) /\ ~IsNoNewline(lines[i + 1])
    /\ ~IsDeletion(lines[i + 1]) /\ ~IsAddition(lines[i + 1])
    /\ ~IsContext(lines[i + 1])
    /\ i' = i + 1
    /\ UNCHANGED << lines, pc, blocks, new_line_num, old_line_num, builder,
                    in_change_block, src_open, src_blocks >>
    /\ UNCHANGED gvars
    /\ UNCHANGED cvars

Next ==
    \/ OuterHunkHeader
    \/ OuterSkip
    \/ Return
    \/ InnerBreak
    \/ InnerEnd
    \/ InnerNoNewline
    \/ InnerDeletion
    \/ InnerAddition
    \/ InnerContext
    \/ InnerOther

Spec == Init /\ [][Next]_vars

---------------------------------------------------------------------------
(* Text of a patch: join("\n") and str::lines()                            *)

\* patch_lines.join("\n")
RECURSIVE Join(_)
Join(ls) ==
    IF ls = << >> THEN << >>
    ELSE IF Len(ls) = 1 THEN ls[1]
    ELSE ls[1] \o << "\n" >> \o Join(Tail(ls))

\* a line without the "\r" of a "\r\n" ending
StripCR(l) ==
    IF Len(l) > 0 /\ l[Len(l)] = "\r" THEN SubSeq(l, 1, Len(l) - 1) ELSE l

\* text.lines(): the pieces ended by "\n", and what follows the last "\n"
\* when it is not empty
RECURSIVE SplitLines(_, _, _)
SplitLines(text, k, cur) ==
    IF k > Len(text) THEN (IF cur = << >> THEN << >> ELSE << cur >>)
    ELSE IF text[k] = "\n"
         THEN << StripCR(cur) >> \o SplitLines(text, k + 1, << >>)
         ELSE SplitLines(text, k + 1, Append(cur, text[k]))

str_lines(text) == SplitLines(text, 1, << >>)

---------------------------------------------------------------------------
(* parse_patch on hunks that start at the end of the u32 range             *)

\* longest hunk body of such an input
MaxWideBody == 3

\* "@@ -4294967295 +4294967295 @@": both starts are u32::MAX
H_MAX ==
    AT2 \o << " ", "-", "4", "2", "9", "4", "9", "6", "7", "2", "9", "5",
              " ", "+", "4", "2", "9", "4", "9", "6", "7", "2", "9", "5", " " >> \o AT2

\* "@@ -4294967296 +4294967296 @@": both starts are past u32::MAX
H_PAST ==
    AT2 \o << " ", "-", "4", "2", "9", "4", "9", "6", "7", "2", "9", "6",
              " ", "+", "4", "2", "9", "4", "9", "6", "7", "2", "9", "6", " " >> \o AT2

WideInputs ==
    { << h >> \o body : h \in { H_MAX, H_PAST }, body \in SeqsUpTo(BodyLines, MaxWideBody) }

InitWide ==
    /\ lines \in WideInputs
    /\ i = 0
    /\ pc = "outer"
    /\ blocks = << >>
    /\ new_line_num = 0
    /\ old_line_num = 0
    /\ builder = BlockBuilderDefault
    /\ in_change_block = FALSE
    /\ src_open = SrcEmpty
    /\ src_blocks = << >>
    /\ GitNotRunning
    /\ CommandsIdle

SpecWide == InitWide /\ [][Next]_vars

---------------------------------------------------------------------------
(* parse_patch on the hunks git writes for deleted and for added files,    *)
(* on hunk headers without counts, and on changed lines whose content      *)
(* starts with their own marker                                            *)

\* longest hunk body of such an input
MaxEdgeBody == 3

\* "@@ -1,3 +0,0 @@": the hunk of a deleted file
H_DELETED == AT2 \o << " ", "-", "1", ",", "3", " ", "+", "0", ",", "0", " " >> \o AT2

\* "@@ -0,0 +1,3 @@": the hunk of an added file
H_ADDED == AT2 \o << " ", "-", "0", ",", "0", " ", "+", "1", ",", "3", " " >> \o AT2

\* "@@ -5 +7 @@" and "@@ -5,1 +7,1 @@": the counts left out, and given as 1
H_NO_COUNT == AT2 \o << " ", "-", "5", " ", "+", "7", " " >> \o AT2
H_COUNT_1 == AT2 \o << " ", "-", "5", ",", "1", " ", "+", "7", ",", "1", " " >> \o AT2

\* "--x": the deletion of a line "-x"; "++y": the addition of a line "+y"
DEL_DASH == << "-", "-", "x" >>
ADD_PLUS == << "+", "+", "y" >>

EdgeBodyLines == BodyLines \cup { DEL_DASH, ADD_PLUS }

EdgeInputs ==
    { << h >> \o body : h \in { H_DELETED, H_ADDED, H_NO_COUNT, H_COUNT_1 },
                        body \in SeqsUpTo(EdgeBodyLines, MaxEdgeBody) }

InitEdge ==
    /\ lines \in EdgeInputs
    /\ i = 0
    /\ pc = "outer"
    /\ blocks = << >>
    /\ new_line_num = 0
    /\ old_line_num = 0
    /\ builder = BlockBuilderDefault
    /\ in_change_block = FALSE
    /\ src_open = SrcEmpty
    /\ src_blocks = << >>
    /\ GitNotRunning
    /\ CommandsIdle

SpecEdge == InitEdge /\ [][Next]_vars

---------------------------------------------------------------------------
(* parse_git_diff: regular expressions and helpers                         *)

DIFF_GIT == << "d", "i", "f", "f", " ", "-", "-", "g", "i", "t" >>
DIFF_GIT_A == DIFF_GIT \o << " ", "a", "/" >>
SP_B == << " ", "b", "/" >>
NEW_FILE == << "n", "e", "w", " ", "f", "i", "l", "e" >>
DELETED_FILE == << "d", "e", "l", "e", "t", "e", "d", " ", "f", "i", "l", "e" >>
RENAMED == << "r", "e", "n", "a", "m", "e", "d" >>

\* ^diff --git a/(.+) b/(.+)$ : the positions at which " b/" can stand with
\* a non-empty text on both sides
FileHeaderSplits(l) ==
    { p \in (Len(DIFF_GIT_A) + 2) .. (Len(l) - 3) : SubSeq(l, p, p + 2) = SP_B }

\* [matched, path]: capture group 2; the greedy first group takes the last
\* split
file_header_re(l) ==
    IF StartsWith(l, DIFF_GIT_A) /\ FileHeaderSplits(l) # { }
    THEN LET p == CHOOSE q \in FileHeaderSplits(l) : \A r \in FileHeaderSplits(l) : r <= q
         IN  [ matched |-> TRUE, path |-> SubSeq(l, p + 3, Len(l)) ]
    ELSE [ matched |-> FALSE, path |-> << >> ]

\* mutant: a later status marker does not replace an earlier one
status_after_first_wins(st, l) ==
    IF st # "Modified" THEN st
    ELSE IF StartsWith(l, NEW_FILE) THEN "Added"
    ELSE IF StartsWith(l, DELETED_FILE) THEN "Deleted"
    ELSE IF StartsWith(l, RENAMED) THEN "Renamed"
    ELSE st

\* mutant: "renamed" is not recognised
status_after_no_rename(st, l) ==
    IF StartsWith(l, NEW_FILE) THEN "Added"
    ELSE IF StartsWith(l, DELETED_FILE) THEN "Deleted"
    ELSE st

\* diff.rs:299-306: status after the status scan has looked at line l;
\* status_re is ^(new file|deleted file|renamed)
status_after(st, l) ==
    IF StartsWith(l, NEW_FILE) THEN "Added"
    ELSE IF StartsWith(l, DELETED_FILE) THEN "Deleted"
    ELSE IF StartsWith(l, RENAMED) THEN "Renamed"
    ELSE st

\* ^\+[^+]
additions_re(l) == Len(l) >= 2 /\ l[1] = "+" /\ l[2] # "+"

\* ^-[^-]
deletions_re(l) == Len(l) >= 2 /\ l[1] = "-" /\ l[2] # "-"

\* diff.rs:324-328: the tallies after line l
additions_after(n, l) == IF additions_re(l) THEN n + 1 ELSE n
deletions_after(n, l) == IF ~additions_re(l) /\ deletions_re(l) THEN n + 1 ELSE n

ReviewFile(p, st, a, d, cb) ==
    [ path |-> p, status |-> st, additions |-> a, deletions |-> d,
      content |-> "None", change_blocks |-> cb ]

\* mutant: the file is listed whether or not it has change blocks
push_file_always(fs, rf) == Append(fs, rf)

\* mutant: a new file is put in front of the list
push_file_in_front(fs, rf) ==
    IF rf.change_blocks # << >> THEN << rf >> \o fs ELSE fs

\* mutant: a listed file takes the place of the files listed before it
push_file_replaces(fs, rf) ==
    IF rf.change_blocks # << >> THEN << rf >> ELSE fs

\* diff.rs:336-346: only files with change blocks are listed
push_file(fs, rf) ==
    IF rf.change_blocks # << >> THEN Append(fs, rf) ELSE fs

---------------------------------------------------------------------------
(* parse_git_diff: inputs                                                  *)

\* longest hunk body of the first file section of an input
MaxGitBody == 2

FH_F == << "d", "i", "f", "f", " ", "-", "-", "g", "i", "t", " ", "a", "/", "f", " ", "b", "/", "f" >>
FH_R == << "d", "i", "f", "f", " ", "-", "-", "g", "i", "t", " ", "a", "/", "f", " ", "b", "/", "g" >>
\* a header in which " b/" stands twice
FH_BB == FH_F \o << " ", "b", "/", "g" >>
INDEX == << "i", "n", "d", "e", "x" >>
ATX == AT2 \o << " ", "x" >>
NONL == NO_NEWLINE \o << " ", "a", "t" >>
ADD_A == << "+", "a" >>
DEL_B == << "-", "b" >>
CTX_C == << " ", "c" >>

\* the lines between a file header and the first "@@" line
MarkerRuns ==
    { << >>,
      << NEW_FILE >>,
      << DELETED_FILE >>,
      << RENAMED >>,
      << INDEX, NEW_FILE >>,
      << NEW_FILE, DELETED_FILE >> }

GitBodyLines ==
    { ADD_A, DEL_B, CTX_C, << "+" >>, NEW_FILE, NONL, ATX }

\* no hunk, or a hunk header and at most MaxGitBody further lines
HunkParts ==
    { << >> } \cup { << H1 >> \o body : body \in SeqsUpTo(GitBodyLines, MaxGitBody) }

FirstSections ==
    { << h >> \o m \o hp : h \in { FH_F, FH_R }, m \in MarkerRuns, hp \in HunkParts }

SecondSections ==
    { << >>,
      << FH_F, H2, ADD_A >>,
      << FH_R, DELETED_FILE, H2, DEL_B >>,
      << FH_F, NEW_FILE >>,
      << FH_R, H2, CTX_C >>,
      << FH_BB, H2, ADD_A >>,
      << FH_F, H1, ADD_A >>,
      << DIFF_GIT \o << " ", "x" >>, H2, ADD_A >> }

\* one or two file sections, and texts with no file header
GitInputs ==
    { a \o b : a \in FirstSections, b \in SecondSections }
      \cup { << >>, << INDEX >>, << H1, ADD_A >> }

---------------------------------------------------------------------------
(* parse_git_diff                                                          *)

ParseIdle ==
    /\ lines = << >>
    /\ i = 0
    /\ pc = "idle"
    /\ blocks = << >>
    /\ new_line_num = 0
    /\ old_line_num = 0
    /\ builder = BlockBuilderDefault
    /\ in_change_block = FALSE
    /\ src_open = SrcEmpty
    /\ src_blocks = << >>

InitGit ==
    /\ diff_lines \in GitInputs
    /\ di = 0
    /\ gpc = "scan"
    /\ path = << >>
    /\ status = "Modified"
    /\ patch_lines = << >>
    /\ additions = 0
    /\ deletions = 0
    /\ files = << >>
    /\ ParseIdle
    /\ CommandsIdle

ParseUnchanged ==
    UNCHANGED << lines, i, pc, blocks, new_line_num, old_line_num, builder,
                 in_change_block, src_open, src_blocks >>

\* diff.rs:291-296: the outer loop is at a line the file-header regex matches
GitFileHeader ==
    /\ gpc = "scan" /\ di < Len(diff_lines)
    /\ file_header_re(diff_lines[di + 1]).matched
    /\ path' = file_header_re(diff_lines[di + 1]).path
    /\ di' = di + 1
    /\ status' = "Modified"
    /\ gpc' = "status"
    /\ UNCHANGED << diff_lines, patch_lines, additions, deletions, files >>
    /\ ParseUnchanged
    /\ UNCHANGED cvars

\* diff.rs:347-349: any other line is skipped
GitSkip ==
    /\ gpc = "scan" /\ di < Len(diff_lines)
    /\ ~file_header_re(diff_lines[di + 1]).matched
    /\ di' = di + 1
    /\ UNCHANGED << diff_lines, gpc, path, status, patch_lines, additions,
                    deletions, files >>
    /\ ParseUnchanged
    /\ UNCHANGED cvars

\* diff.rs:350-354: the outer loop ends and files is returned
GitReturn ==
    /\ gpc = "scan" /\ di = Len(diff_lines)
    /\ gpc' = "done"
    /\ UNCHANGED << diff_lines, di, path, status, patch_lines, additions,
                    deletions, files >>
    /\ ParseUnchanged
    /\ UNCHANGED cvars

\* diff.rs:299-312: the status scan looks at a line and steps over it
GitStatusStep ==
    /\ gpc = "status" /\ di < Len(diff_lines)
    /\ ~StartsWith(diff_lines[di + 1], DIFF_GIT)
    /\ ~StartsWith(diff_lines[di + 1], AT2)
    /\ status' = status_after(status, diff_lines[di + 1])
    /\ di' = di + 1
    /\ UNCHANGED << diff_lines, gpc, path, patch_lines, additions, deletions, files >>
    /\ ParseUnchanged
    /\ UNCHANGED cvars

\* diff.rs:299-311,315-318: the status scan breaks at a line starting with
\* "@@", after looking at it
GitStatusBreak ==
    /\ gpc = "status" /\ di < Len(diff_lines)
    /\ ~StartsWith(diff_lines[di + 1], DIFF_GIT)
    /\ StartsWith(diff_lines[di + 1], AT2)
    /\ status' = status_after(status, diff_lines[di + 1])
    /\ gpc' = "collect"
    /\ patch_lines' = << >>
    /\ additions' = 0
    /\ deletions' = 0
    /\ UNCHANGED << diff_lines, di, path, files >>
    /\ ParseUnchanged
    /\ UNCHANGED cvars

\* diff.rs:299,315-318: the status scan ends at the next file or at the end
\* of the input
GitStatusEnd ==
    /\ gpc = "status"
    /\ IF di < Len(diff_lines) THEN StartsWith(diff_lines[di + 1], DIFF_GIT) ELSE TRUE
    /\ gpc' = "collect"
    /\ patch_lines' = << >>
    /\ additions' = 0
    /\ deletions' = 0
    /\ UNCHANGED << diff_lines, di, path, status, files >>
    /\ ParseUnchanged
    /\ UNCHANGED cvars

\* diff.rs:320-331: a line is added to the patch and tallied
GitCollectStep ==
    /\ gpc = "collect" /\ di < Len(diff_lines)
    /\ ~StartsWith(diff_lines[di + 1], DIFF_GIT)
    /\ patch_lines' = Append(patch_lines, diff_lines[di + 1])
    /\ additions' = additions_after(additions, diff_lines[di + 1])
    /\ deletions' = deletions_after(deletions, diff_lines[di + 1])
    /\ di' = di + 1
    /\ UNCHANGED << diff_lines, gpc, path, status, files >>
    /\ ParseUnchanged
    /\ UNCHANGED cvars

\* diff.rs:320,333-334: the patch is complete; parse_patch is called on the
\* joined text
GitCallParsePatch ==
    /\ gpc = "collect"
    /\ IF di < Len(diff_lines) THEN StartsWith(diff_lines[di + 1], DIFF_GIT) ELSE TRUE
    /\ gpc' = "parse"
    /\ lines' = str_lines(Join(patch_lines))
    /\ i' = 0
    /\ pc' = "outer"
    /\ blocks' = << >>
    /\ src_blocks' = << >>
    /\ UNCHANGED << new_line_num, old_line_num, builder, in_change_block, src_open >>
    /\ UNCHANGED << diff_lines, di, path, status, patch_lines, additions,
                    deletions, files >>
    /\ UNCHANGED cvars

\* mutant: the tallies of one file are carried into the next
GitParseReturned_keeps_tallies ==
    /\ gpc = "parse" /\ pc = "done"
    /\ files' = push_file(files, ReviewFile(path, status, additions, deletions, blocks))
    /\ gpc' = "scan"
    /\ path' = << >>
    /\ status' = "Modified"
    /\ patch_lines' = << >>
    /\ lines' = << >>
    /\ i' = 0
    /\ pc' = "idle"
    /\ blocks' = << >>
    /\ src_blocks' = << >>
    /\ UNCHANGED << diff_lines, di, additions, deletions, new_line_num, old_line_num,
                    builder, in_change_block, src_open >>
    /\ UNCHANGED cvars

\* diff.rs:334-346: parse_patch has returned; the file is listed if it has
\* change blocks, and the locals of the file go out of scope
GitParseReturned ==
    /\ gpc = "parse" /\ pc = "done"
    /\ files' = push_file(files, ReviewFile(path, status, additions, deletions, blocks))
    /\ gpc' = "scan"
    /\ path' = << >>
    /\ status' = "Modified"
    /\ patch_lines' = << >>
    /\ additions' = 0
    /\ deletions' = 0
    /\ lines' = << >>
    /\ i' = 0
    /\ pc' = "idle"
    /\ blocks' = << >>
    /\ src_blocks' = << >>
    /\ UNCHANGED << diff_lines, di, new_line_num, old_line_num, builder,
                    in_change_block, src_open >>
    /\ UNCHANGED cvars

NextGit ==
    \/ GitFileHeader
    \/ GitSkip
    \/ GitReturn
    \/ GitStatusStep
    \/ GitStatusBreak
    \/ GitStatusEnd
    \/ GitCollectStep
    \/ GitCallParsePatch
    \/ GitParseReturned
    \/ OuterHunkHeader
    \/ OuterSkip
    \/ Return
    \/ InnerBreak
    \/ InnerEnd
    \/ InnerNoNewline
    \/ InnerDeletion
    \/ InnerAddition
    \/ InnerContext
    \/ InnerOther

SpecGit == InitGit /\ [][NextGit]_vars

---------------------------------------------------------------------------
(* parse_git_diff as a program that keeps running: every enabled step is   *)
(* eventually taken                                                        *)

\* longest hunk body of an input of this specification
MaxTermBody == 1

TermInputs ==
    { << FH_F >> \o m \o hp \o b :
        m \in { << >>, << NEW_FILE >> },
        hp \in { << >> } \cup { << H1 >> \o body : body \in SeqsUpTo(GitBodyLines, MaxTermBody) },
        b \in { << >>, << FH_R, H2, DEL_B >>, << DIFF_GIT \o << " ", "x" >>, H2, ADD_A >> } }
      \cup { << >>, << INDEX >> }

InitTerm ==
    /\ diff_lines \in TermInputs
    /\ di = 0
    /\ gpc = "scan"
    /\ path = << >>
    /\ status = "Modified"
    /\ patch_lines = << >>
    /\ additions = 0
    /\ deletions = 0
    /\ files = << >>
    /\ ParseIdle
    /\ CommandsIdle

SpecTerm == InitTerm /\ [][NextGit]_vars /\ WF_vars(NextGit)

---------------------------------------------------------------------------
(* parse_patch as a function of its input: the same loops, folded over the *)
(* lines; `+= 1` wraps, as in a build without overflow checks              *)

PatchStart ==
    [ blocks |-> << >>, inner |-> FALSE, new_line_num |-> 0, old_line_num |-> 0,
      builder |-> BlockBuilderDefault, in_change_block |-> FALSE ]

\* parser.rs:131-133: the hunk body is left
PatchLeaveHunk(st) ==
    [ blocks |-> st.blocks \o into_change_block(st.builder), inner |-> FALSE,
      new_line_num |-> 0, old_line_num |-> 0,
      builder |-> BlockBuilderDefault, in_change_block |-> FALSE ]

\* parser.rs:74-86,134-136: one line of the outer loop
PatchOuterLine(st, l) ==
    IF captures(l).matched
    THEN [ st EXCEPT !.inner = TRUE,
                     !.old_line_num = ParseU32OrZero(captures(l).old_start),
                     !.new_line_num = ParseU32OrZero(captures(l).new_start),
                     !.builder = BlockBuilderDefault,
                     !.in_change_block = FALSE ]
    ELSE st

\* parser.rs:88-129: one line of the hunk-body loop; a line that ends the
\* body is then seen by the outer loop
PatchInnerLine(st, l) ==
    IF EndsHunk(l) THEN PatchOuterLine(PatchLeaveHunk(st), l)
    ELSE IF IsNoNewline(l) THEN st
    ELSE IF IsDeletion(l)
    THEN [ st EXCEPT !.builder = on_deletion(st.builder, Tail(l),
                                             st.new_line_num, st.old_line_num),
                     !.in_change_block = TRUE,
                     !.old_line_num = WrappingInc(@) ]
    ELSE IF IsAddition(l)
    THEN [ st EXCEPT !.builder = on_addition(st.builder, st.new_line_num,
                                             st.in_change_block),
                     !.new_line_num = WrappingInc(@) ]
    ELSE IF IsContext(l)
    THEN [ st EXCEPT !.blocks = @ \o into_change_block(st.builder),
                     !.builder = BlockBuilderDefault,
                     !.in_change_block = FALSE,
                     !.new_line_num = WrappingInc(@),
                     !.old_line_num = WrappingInc(@) ]
    ELSE st

RECURSIVE PatchFold(_, _, _)
PatchFold(st, ls, k) ==
    IF k > Len(ls) THEN (IF st.inner THEN PatchLeaveHunk(st) ELSE st)
    ELSE PatchFold(IF st.inner THEN PatchInnerLine(st, ls[k])
                               ELSE PatchOuterLine(st, ls[k]),
                   ls, k + 1)

\* the blocks parse_patch returns for the lines ls
parse_patch_of(ls) == PatchFold(PatchStart, ls, 1).blocks

---------------------------------------------------------------------------
(* parse_git_diff as a function of its input: the same loops, folded over  *)
(* the lines                                                               *)

GitStart ==
    [ files |-> << >>, mode |-> "scan", path |-> << >>, status |-> "Modified",
      patch_lines |-> << >>, additions |-> 0, deletions |-> 0 ]

\* diff.rs:333-346: the section ends; its patch is parsed and the file listed
GitCloseSection(st) ==
    [ files |-> push_file(st.files,
                          ReviewFile(st.path, st.status, st.additions, st.deletions,
                                     parse_patch_of(str_lines(Join(st.patch_lines))))),
      mode |-> "scan", path |-> << >>, status |-> "Modified",
      patch_lines |-> << >>, additions |-> 0, deletions |-> 0 ]

\* diff.rs:292-297,347-349: one line of the outer loop
GitScanLine(st, l) ==
    IF file_header_re(l).matched
    THEN [ st EXCEPT !.mode = "status", !.path = file_header_re(l).path ]
    ELSE st

\* diff.rs:320-331: one line of the collection loop
GitCollectLine(st, l) ==
    [ st EXCEPT !.mode = "collect",
                !.patch_lines = Append(@, l),
                !.additions = additions_after(@, l),
                !.deletions = deletions_after(@, l) ]

\* one line of the input, in whichever loop is running
GitLine(st, l) ==
    IF st.mode = "scan" THEN GitScanLine(st, l)
    ELSE IF StartsWith(l, DIFF_GIT) THEN GitScanLine(GitCloseSection(st), l)
    ELSE IF st.mode = "collect" THEN GitCollectLine(st, l)
    ELSE IF StartsWith(l, AT2)
    THEN GitCollectLine([ st EXCEPT !.status = status_after(@, l) ], l)
    ELSE [ st EXCEPT !.status = status_after(@, l) ]

RECURSIVE GitFold(_, _, _)
GitFold(st, ls, k) ==
    IF k > Len(ls) THEN (IF st.mode = "scan" THEN st ELSE GitCloseSection(st))
    ELSE GitFold(GitLine(st, ls[k]), ls, k + 1)

\* the files parse_git_diff returns for the lines ls
parse_git_diff_of(ls) == GitFold(GitStart, ls, 1).files

---------------------------------------------------------------------------
(* The `diff` command: get_local_diff                                      *)

\* Result values
Ok(v) == [ ok |-> TRUE, v |-> v ]
Err == [ ok |-> FALSE, v |-> << >> ]

\* mutant: --cached-only wins over --uncached-only
parse_local_diff_mode_cached_wins(cached_only, uncached_only) ==
    IF cached_only THEN Ok("CachedOnly")
    ELSE IF uncached_only THEN Ok("UncachedOnly")
    ELSE Ok("All")

\* diff.rs:152-166
parse_local_diff_mode(cached_only, uncached_only) ==
    IF cached_only /\ uncached_only THEN Err
    ELSE IF cached_only THEN Ok("CachedOnly")
    ELSE IF uncached_only THEN Ok("UncachedOnly")
    ELSE Ok("All")

\* diff.rs:186: target.unwrap_or("HEAD")
selected_target(target) == IF target = << >> THEN "HEAD" ELSE target[1]

\* mutant: the merge-base is asked for but the target itself is returned
resolve_local_diff_target_ignores_base(target, m, merge_base, mb) ==
    IF m = "UncachedOnly"
    THEN IF target # << >> THEN Err
         ELSE IF merge_base THEN Err
         ELSE Ok(<< >>)
    ELSE IF merge_base
         THEN IF mb.ok THEN Ok(<< selected_target(target) >>) ELSE Err
         ELSE Ok(<< selected_target(target) >>)

\* diff.rs:168-192; mb is the Result of get_merge_base(selected_target),
\* which is called only when merge_base is set outside UncachedOnly mode
resolve_local_diff_target(target, m, merge_base, mb) ==
    IF m = "UncachedOnly"
    THEN IF target # << >> THEN Err
         ELSE IF merge_base THEN Err
         ELSE Ok(<< >>)
    ELSE IF merge_base
         THEN IF mb.ok THEN Ok(<< mb.v >>) ELSE Err
         ELSE Ok(<< selected_target(target) >>)

\* diff.rs:194-196
should_include_untracked(m, tracked_only) == ~tracked_only /\ m # "CachedOnly"

\* diff.rs:129-150
build_git_diff_args(target, ignore_whitespace, m) ==
    << "diff" >>
      \o (IF ignore_whitespace THEN << "-w" >> ELSE << >>)
      \o (IF m = "CachedOnly" THEN << "--cached" >> ELSE << >>)
      \o target

\* diff.rs:9
IGNORE_WHITESPACE_CHANGES == TRUE

\* the revisions given on the command line
Targets == { << >>, << "main" >>, << "HEAD" >> }

LocalOpts ==
    [ target : Targets, cached_only : BOOLEAN, uncached_only : BOOLEAN,
      merge_base : BOOLEAN, tracked_only : BOOLEAN ]

\* what `git merge-base HEAD <target>` can answer: a commit, or a failure
MergeBaseResults == { Ok("mb1"), Err }

\* what `git diff` can answer: a failure, no output, or a diff
GitDiffResults == { Err, Ok(<< >>), Ok(<< FH_F, H1, ADD_A >>) }

\* the patch `git diff --no-index -- /dev/null <path>` prints for a file
UNTRACKED_PATCH == << FH_BB, NEW_FILE, H_ADDED, ADD_A >>

\* what the untracked files can contribute: a failing git call, no path,
\* one path, or a path with an empty patch before one with a patch
UntrackedResults ==
    { Err, Ok(<< >>), Ok(<< UNTRACKED_PATCH >>), Ok(<< << >>, UNTRACKED_PATCH >>) }

RECURSIVE review_files_of(_, _)
\* diff.rs:218-229: the files of the non-empty patches, in path order
review_files_of(patches, k) ==
    IF k = 0 THEN << >>
    ELSE review_files_of(patches, k - 1)
           \o (IF patches[k] = << >> THEN << >> ELSE parse_git_diff_of(patches[k]))

\* an entry of git_log
GitCall(cmd, args, ok) == [ cmd |-> cmd, args |-> args, ok |-> ok ]

\* the fetch command is not running
FetchIdle ==
    /\ fpc = "none"
    /\ present = { }
    /\ pr_files = << >>

InitLocal ==
    /\ opts \in LocalOpts
    /\ lpc = "root"
    /\ mode = "none"
    /\ diff_target = << >>
    /\ local_files = << >>
    /\ git_log = << >>
    /\ printed = << >>
    /\ FetchIdle
    /\ GitNotRunning
    /\ ParseIdle

OthersUnchanged ==
    /\ UNCHANGED << fpc, present, pr_files >>
    /\ UNCHANGED gvars
    /\ ParseUnchanged

\* diff.rs:43: get_git_root()?
LocalGitRoot ==
    /\ lpc = "root"
    /\ \E ok \in BOOLEAN :
         /\ git_log' = Append(git_log, GitCall("rev-parse", << "--show-toplevel" >>, ok))
         /\ lpc' = IF ok THEN "mode" ELSE "err_root"
    /\ UNCHANGED << opts, mode, diff_target, local_files, printed >>
    /\ OthersUnchanged

\* diff.rs:44: parse_local_diff_mode(opts.cached_only, opts.uncached_only)?
LocalMode ==
    /\ lpc = "mode"
    /\ LET r == parse_local_diff_mode(opts.cached_only, opts.uncached_only)
       IN  IF r.ok
           THEN mode' = r.v /\ lpc' = "target"
           ELSE mode' = mode /\ lpc' = "err_mode"
    /\ UNCHANGED << opts, diff_target, local_files, git_log, printed >>
    /\ OthersUnchanged

\* diff.rs:45: resolve_local_diff_target(opts.target.as_deref(), mode,
\* opts.merge_base)?, with the git call of get_merge_base (diff.rs:198-211)
LocalTarget ==
    /\ lpc = "target"
    /\ \E mb \in MergeBaseResults :
         LET called == mode # "UncachedOnly" /\ opts.merge_base
             r == resolve_local_diff_target(opts.target, mode, opts.merge_base, mb)
         IN  /\ called \/ mb = Err
             /\ git_log' = IF called
                           THEN Append(git_log,
                                  GitCall("merge-base",
                                          << "HEAD", selected_target(opts.target) >>, mb.ok))
                           ELSE git_log
             /\ IF r.ok
                THEN diff_target' = r.v /\ lpc' = "diff"
                ELSE diff_target' = diff_target /\ lpc' = "err_target"
    /\ UNCHANGED << opts, mode, local_files, printed >>
    /\ OthersUnchanged

\* diff.rs:46-52: get_git_diff(..)? and parse_git_diff of a non-empty output
LocalDiff ==
    /\ lpc = "diff"
    /\ \E out \in GitDiffResults :
         /\ git_log' = Append(git_log,
                         GitCall("diff",
                                 build_git_diff_args(diff_target,
                                                     IGNORE_WHITESPACE_CHANGES, mode),
                                 out.ok))
         /\ IF out.ok
            THEN /\ local_files' = IF out.v = << >> THEN << >> ELSE parse_git_diff_of(out.v)
                 /\ lpc' = IF should_include_untracked(mode, opts.tracked_only)
                           THEN "untracked" ELSE "print"
            ELSE /\ local_files' = local_files
                 /\ lpc' = "err_diff"
    /\ UNCHANGED << opts, mode, diff_target, printed >>
    /\ OthersUnchanged

\* diff.rs:54-56: files.extend(get_untracked_review_files(..)?)
LocalUntracked ==
    /\ lpc = "untracked"
    /\ \E u \in UntrackedResults :
         /\ git_log' = Append(git_log,
                         GitCall("ls-files", << "--others", "--exclude-standard" >>, u.ok))
         /\ IF u.ok
            THEN /\ local_files' = local_files \o review_files_of(u.v, Len(u.v))
                 /\ lpc' = "print"
            ELSE /\ local_files' = local_files
                 /\ lpc' = "err_untracked"
    /\ UNCHANGED << opts, mode, diff_target, printed >>
    /\ OthersUnchanged

\* diff.rs:33-37: run prints the response as JSON and returns Ok
LocalPrint ==
    /\ lpc = "print"
    /\ printed' = Append(printed, [ files |-> local_files, git_root |-> "root" ])
    /\ lpc' = "done"
    /\ UNCHANGED << opts, mode, diff_target, local_files, git_log >>
    /\ OthersUnchanged

NextLocal ==
    \/ LocalGitRoot
    \/ LocalMode
    \/ LocalTarget
    \/ LocalDiff
    \/ LocalUntracked
    \/ LocalPrint

SpecLocal == InitLocal /\ [][NextLocal]_vars

---------------------------------------------------------------------------
(* The `fetch` command: fetch::run                                         *)

\* the pull request of the run: its commits and refs, fetch.rs:14
BASE_SHA == "b45e"
HEAD_SHA == "4ead"
BASE_REF == "main"
HEAD_REF == "feature"

\* fetch.rs:77: format!("pull/{pr_number}/head")
PULL_REF == "pull/7/head"

\* fetch.rs:15: the detected remote, "origin" if none is detected
REMOTE == "origin"

\* diff.rs:277-279: format!("{base_sha}...{head_sha}"), held as its parts
build_pr_diff_target(base_sha, head_sha) == << base_sha, "...", head_sha >>

\* what `git diff base...head` can answer: a failure, no output, or a diff
PrDiffResults == { Err, Ok(<< >>), Ok(<< FH_F, H1, DEL_B, ADD_A >>) }

\* diff.rs:91-110: `git cat-file -e <sha>^{commit}` succeeds when git can be
\* run and the repository holds the commit
CommitCheck(sha, runs) == GitCall("cat-file", << "-e", sha >>, runs /\ sha \in present)

\* fetch.rs:100-115: `git fetch --no-tags <remote> <ref>`
RemoteFetch(ref, ok) == GitCall("fetch", << "--no-tags", REMOTE, ref >>, ok)

\* the repository after a fetch: a successful one may have brought commits
AfterFetch(ok, got) == IF ok THEN present \cup got ELSE present

\* fetch.rs:45-47: the base commit is there, or its ref is fetched
after_base_check(ok) == IF ok THEN "head_check" ELSE "base_fetch"

\* fetch.rs:49: fetch_remote_ref(remote, base_ref)?
after_base_fetch(ok) == IF ok THEN "base_recheck" ELSE "err_base_fetch"

\* fetch.rs:50-63
after_base_recheck(ok) == IF ok THEN "head_check" ELSE "err_base"

\* fetch.rs:72-74
after_head_check(ok) == IF ok THEN "diff" ELSE "head_fetch_branch"

\* mutant: the command goes on to the diff whatever the second check says
after_head_recheck_goes_on(ok) == "diff"

\* fetch.rs:81-97
after_head_recheck(ok) == IF ok THEN "diff" ELSE "err_head"

InitFetch ==
    /\ fpc = "start"
    /\ present \in SUBSET { BASE_SHA, HEAD_SHA }
    /\ pr_files = << >>
    /\ git_log = << >>
    /\ printed = << >>
    /\ opts = LocalDiffCliOptsDefault
    /\ lpc = "none"
    /\ mode = "none"
    /\ diff_target = << >>
    /\ local_files = << >>
    /\ GitNotRunning
    /\ ParseIdle

FetchFrame ==
    /\ UNCHANGED << opts, lpc, mode, diff_target, local_files >>
    /\ UNCHANGED gvars
    /\ ParseUnchanged

\* fetch.rs:10-15: the client, the PR reference, the PR and viewer, the remote
FetchMeta ==
    /\ fpc = "start"
    /\ \E ok \in BOOLEAN :
         /\ fpc' = IF ok THEN "base_check" ELSE "err_meta"
         /\ git_log' = IF ok THEN Append(git_log, GitCall("remote", << "-v" >>, TRUE))
                       ELSE git_log
    /\ UNCHANGED << present, pr_files, printed >>
    /\ FetchFrame

\* fetch.rs:45-47
FetchBaseCheck ==
    /\ fpc = "base_check"
    /\ \E runs \in BOOLEAN :
         LET c == CommitCheck(BASE_SHA, runs)
         IN  /\ git_log' = Append(git_log, c)
             /\ fpc' = after_base_check(c.ok)
    /\ UNCHANGED << present, pr_files, printed >>
    /\ FetchFrame

\* fetch.rs:49
FetchBaseRef ==
    /\ fpc = "base_fetch"
    /\ \E ok \in BOOLEAN, got \in SUBSET { BASE_SHA, HEAD_SHA } :
         /\ ok \/ got = { }
         /\ git_log' = Append(git_log, RemoteFetch(BASE_REF, ok))
         /\ present' = AfterFetch(ok, got)
         /\ fpc' = after_base_fetch(ok)
    /\ UNCHANGED << pr_files, printed >>
    /\ FetchFrame

\* fetch.rs:50-63
FetchBaseRecheck ==
    /\ fpc = "base_recheck"
    /\ \E runs \in BOOLEAN :
         LET c == CommitCheck(BASE_SHA, runs)
         IN  /\ git_log' = Append(git_log, c)
             /\ fpc' = after_base_recheck(c.ok)
    /\ UNCHANGED << present, pr_files, printed >>
    /\ FetchFrame

\* fetch.rs:72-74
FetchHeadCheck ==
    /\ fpc = "head_check"
    /\ \E runs \in BOOLEAN :
         LET c == CommitCheck(HEAD_SHA, runs)
         IN  /\ git_log' = Append(git_log, c)
             /\ fpc' = after_head_check(c.ok)
    /\ UNCHANGED << present, pr_files, printed >>
    /\ FetchFrame

\* fetch.rs:76-77: let _ = fetch_remote_ref(remote, head_ref)
FetchHeadRef ==
    /\ fpc = "head_fetch_branch"
    /\ \E ok \in BOOLEAN, got \in SUBSET { BASE_SHA, HEAD_SHA } :
         /\ ok \/ got = { }
         /\ git_log' = Append(git_log, RemoteFetch(HEAD_REF, ok))
         /\ present' = AfterFetch(ok, got)
    /\ fpc' = "head_fetch_pull"
    /\ UNCHANGED << pr_files, printed >>
    /\ FetchFrame

\* fetch.rs:78-79: let _ = fetch_remote_ref(remote, &pull_ref)
FetchPullRef ==
    /\ fpc = "head_fetch_pull"
    /\ \E ok \in BOOLEAN, got \in SUBSET { BASE_SHA, HEAD_SHA } :
         /\ ok \/ got = { }
         /\ git_log' = Append(git_log, RemoteFetch(PULL_REF, ok))
         /\ present' = AfterFetch(ok, got)
    /\ fpc' = "head_recheck"
    /\ UNCHANGED << pr_files, printed >>
    /\ FetchFrame

\* fetch.rs:81-97
FetchHeadRecheck ==
    /\ fpc = "head_recheck"
    /\ \E runs \in BOOLEAN :
         LET c == CommitCheck(HEAD_SHA, runs)
         IN  /\ git_log' = Append(git_log, c)
             /\ fpc' = after_head_recheck(c.ok)
    /\ UNCHANGED << present, pr_files, printed >>
    /\ FetchFrame

\* fetch.rs:20, diff.rs:61-74: get_pr_review_files(base_sha, head_sha, true)?
FetchDiff ==
    /\ fpc = "diff"
    /\ \E out \in PrDiffResults :
         /\ git_log' = Append(git_log,
                         GitCall("diff",
                                 build_git_diff_args(
                                     << build_pr_diff_target(BASE_SHA, HEAD_SHA) >>,
                                     TRUE, "All"),
                                 out.ok))
         /\ IF out.ok
            THEN /\ pr_files' = IF out.v = << >> THEN << >> ELSE parse_git_diff_of(out.v)
                 /\ fpc' = "comments"
            ELSE /\ pr_files' = pr_files
                 /\ fpc' = "err_diff"
    /\ UNCHANGED << present, printed >>
    /\ FetchFrame

\* fetch.rs:23: client.get_review_comments(&pr_ref).await?
FetchComments ==
    /\ fpc = "comments"
    /\ \E ok \in BOOLEAN : fpc' = IF ok THEN "print" ELSE "err_comments"
    /\ UNCHANGED << present, pr_files, git_log, printed >>
    /\ FetchFrame

\* fetch.rs:25-36: the response is printed as JSON
FetchPrint ==
    /\ fpc = "print"
    /\ printed' = Append(printed, [ files |-> pr_files ])
    /\ fpc' = "done"
    /\ UNCHANGED << present, pr_files, git_log >>
    /\ FetchFrame

NextFetch ==
    \/ FetchMeta
    \/ FetchBaseCheck
    \/ FetchBaseRef
    \/ FetchBaseRecheck
    \/ FetchHeadCheck
    \/ FetchHeadRef
    \/ FetchPullRef
    \/ FetchHeadRecheck
    \/ FetchDiff
    \/ FetchComments
    \/ FetchPrint

SpecFetch == InitFetch /\ [][NextFetch]_vars

---------------------------------------------------------------------------
(* The input as the unified-diff format reads it, independently of the     *)
(* parser's own line tests: used to state the properties below.            *)

Range(f) == { f[x] : x \in DOMAIN f }

FirstIs(l, c) == Len(l) > 0 /\ l[1] = c

IsCtx(l) == FirstIs(l, " ") \/ l = << >>

\* a line at which a hunk body stops: one starting with "@@" or "diff "
StopsBody(l) ==
    \/ Len(l) >= 2 /\ l[1] = "@" /\ l[2] = "@"
    \/ Len(l) >= 5 /\ l[1] = "d" /\ l[2] = "i" /\ l[3] = "f" /\ l[4] = "f" /\ l[5] = " "

\* the last of lines 1 .. k at which a hunk body stops, 0 if there is none
RECURSIVE LastStop(_)
LastStop(k) ==
    IF k = 0 THEN 0
    ELSE IF StopsBody(lines[k]) THEN k
    ELSE LastStop(k - 1)

\* the index of the hunk header whose body holds line k, 0 if there is none:
\* line k stops no body, and the nearest line before it that does is a valid
\* hunk header
HunkOf(k) ==
    IF StopsBody(lines[k]) THEN 0
    ELSE LET h == LastStop(k - 1)
         IN  IF h # 0 /\ captures(lines[h]).matched THEN h ELSE 0

AddLine(k) == HunkOf(k) # 0 /\ FirstIs(lines[k], "+")
DelLine(k) == HunkOf(k) # 0 /\ FirstIs(lines[k], "-")
CtxLine(k) == HunkOf(k) # 0 /\ IsCtx(lines[k])

NewStartOf(h) == ParseU32OrZero(captures(lines[h]).new_start)
OldStartOf(h) == ParseU32OrZero(captures(lines[h]).old_start)

\* new_start of hunk h plus the context/blank and addition lines among
\* lines h+1 .. k, all of them lines of h's body
NewAfter(h, k) ==
    NewStartOf(h)
      + Cardinality({ m \in (h + 1) .. k : FirstIs(lines[m], "+") \/ IsCtx(lines[m]) })

\* old_start of hunk h plus the context/blank and deletion lines among
\* lines h+1 .. k, all of them lines of h's body
OldAfter(h, k) ==
    OldStartOf(h)
      + Cardinality({ m \in (h + 1) .. k : FirstIs(lines[m], "-") \/ IsCtx(lines[m]) })

\* the pointer values the format gives line k of a hunk body
NewAt(k) == NewAfter(HunkOf(k), k - 1)
OldAt(k) == OldAfter(HunkOf(k), k - 1)

\* the hunk whose header or body the last consumed line belongs to
OpenHunk == LastStop(i)

\* the history variables run parallel to the blocks
SrcParallel ==
    /\ Len(src_blocks) = Len(blocks)
    /\ \A n \in 1 .. Len(blocks) :
         /\ Len(src_blocks[n].adds) = Len(blocks[n].added_lines)
         /\ Len(src_blocks[n].dels) = Len(blocks[n].old_to_new)

SrcLines(n) == Range(src_blocks[n].adds) \cup Range(src_blocks[n].dels)

Returned == pc = "done"

---------------------------------------------------------------------------
(* Properties                                                              *)

\* C1: every emitted ChangeBlock has a kind consistent with its contents:
\* Add has added lines and no deletion group, Delete has deletion groups
\* and no added line, Change has both; no block has neither.
C1_KindMatchesContents ==
    \A n \in 1 .. Len(blocks) :
        LET b == blocks[n] IN
        /\ b.kind \in { "Add", "Delete", "Change" }
        /\ b.kind = "Add" => b.added_lines # << >> /\ b.deletion_groups = << >>
        /\ b.kind = "Delete" => b.deletion_groups # << >> /\ b.added_lines = << >>
        /\ b.kind = "Change" => b.added_lines # << >> /\ b.deletion_groups # << >>
        /\ b.added_lines # << >> \/ b.deletion_groups # << >>

C1_Witness ==
    /\ Returned
    /\ \E n \in 1 .. Len(blocks) : blocks[n].kind = "Change"
    /\ \E n \in 1 .. Len(blocks) : blocks[n].kind = "Add"

\* C2: in the returned result, two addition/deletion lines of one hunk are in
\* the same block exactly when no context or blank line lies between them;
\* every addition/deletion line of a hunk body is in exactly one block and a
\* block holds nothing else, so a hunk yields one block per maximal run.
C2_BlocksAreMaximalRuns ==
    Returned =>
        /\ SrcParallel
        /\ \A n \in 1 .. Len(src_blocks) :
             /\ SrcLines(n) # { }
             /\ \A k \in SrcLines(n) : AddLine(k) \/ DelLine(k)
        /\ \A k \in 1 .. Len(lines) :
             (AddLine(k) \/ DelLine(k)) =>
                 Cardinality({ n \in 1 .. Len(src_blocks) : k \in SrcLines(n) }) = 1
        /\ \A p, q \in 1 .. Len(lines) :
             ( /\ p < q
               /\ AddLine(p) \/ DelLine(p)
               /\ AddLine(q) \/ DelLine(q)
               /\ HunkOf(p) = HunkOf(q) ) =>
                 ( (\E n \in 1 .. Len(src_blocks) : p \in SrcLines(n) /\ q \in SrcLines(n))
                   <=> ~ \E m \in (p + 1) .. (q - 1) : CtxLine(m) )

\* two runs of one hunk, separated by a blank line, returned as two blocks
C2_Witness ==
    /\ Returned
    /\ Len(blocks) = 2
    /\ \E p, q, r \in 1 .. Len(lines) :
         /\ p < q /\ q < r
         /\ HunkOf(p) = HunkOf(r)
         /\ p \in SrcLines(1)
         /\ lines[q] = << >>
         /\ r \in SrcLines(2)

\* C3: the new-file pointer is new_start plus the number of context/blank
\* and addition lines consumed in the hunk body, and every added_lines entry
\* is new_start plus the number of such lines that precede its addition.
C3_AddedLineNumbers ==
    /\ pc = "inner" => new_line_num = NewAfter(OpenHunk, i)
    /\ Len(src_open.adds) = Len(builder.added_lines)
    /\ \A k \in 1 .. Len(builder.added_lines) :
         builder.added_lines[k] = NewAt(src_open.adds[k])
    /\ Len(src_blocks) = Len(blocks)
    /\ \A n \in 1 .. Len(blocks) :
         /\ Len(src_blocks[n].adds) = Len(blocks[n].added_lines)
         /\ \A k \in 1 .. Len(blocks[n].added_lines) :
              blocks[n].added_lines[k] = NewAt(src_blocks[n].adds[k])

\* an addition that follows a context line and another addition
C3_Witness ==
    /\ Returned
    /\ \E n \in 1 .. Len(blocks) : \E k \in 1 .. Len(blocks[n].added_lines) :
         LET p == src_blocks[n].adds[k] IN
         /\ \E m \in (HunkOf(p) + 1) .. (p - 1) : CtxLine(m)
         /\ \E m \in (HunkOf(p) + 1) .. (p - 1) : AddLine(m)
         /\ blocks[n].added_lines[k] >= NewStartOf(HunkOf(p)) + 2

\* C4: every deletion line gets exactly one old_to_new entry, whose old_line
\* is old_start plus the preceding context/blank and deletion lines of the
\* hunk and whose new_line is new_start plus the preceding context/blank and
\* addition lines; a deletion advances only the old-file pointer.
C4_OldToNewEntries ==
    /\ pc = "inner" => old_line_num = OldAfter(OpenHunk, i) /\ new_line_num = NewAfter(OpenHunk, i)
    /\ Len(src_open.dels) = Len(builder.old_to_new)
    /\ \A j \in 1 .. Len(builder.old_to_new) :
         builder.old_to_new[j] = [ old_line |-> OldAt(src_open.dels[j]),
                                   new_line |-> NewAt(src_open.dels[j]) ]
    /\ Len(src_blocks) = Len(blocks)
    /\ \A n \in 1 .. Len(blocks) :
         /\ Len(src_blocks[n].dels) = Len(blocks[n].old_to_new)
         /\ \A j \in 1 .. Len(blocks[n].old_to_new) :
              blocks[n].old_to_new[j] = [ old_line |-> OldAt(src_blocks[n].dels[j]),
                                          new_line |-> NewAt(src_blocks[n].dels[j]) ]
    /\ \A k \in 1 .. i :
         DelLine(k) =>
             Cardinality({ n \in 1 .. Len(src_blocks) : k \in Range(src_blocks[n].dels) })
               + (IF k \in Range(src_open.dels) THEN 1 ELSE 0) = 1

\* a deletion that follows a context line, a deletion and an addition, so
\* that its old and new line numbers differ from the header's starts
C4_Witness ==
    /\ Returned
    /\ \E n \in 1 .. Len(blocks) : \E j \in 1 .. Len(blocks[n].old_to_new) :
         LET p == src_blocks[n].dels[j] IN
         /\ \E m \in (HunkOf(p) + 1) .. (p - 1) : CtxLine(m)
         /\ \E m \in (HunkOf(p) + 1) .. (p - 1) : AddLine(m)
         /\ \E m \in (HunkOf(p) + 1) .. (p - 1) : DelLine(m)
         /\ blocks[n].old_to_new[j].old_line = OldStartOf(HunkOf(p)) + 2
         /\ blocks[n].old_to_new[j].new_line = NewStartOf(HunkOf(p)) + 2

---------------------------------------------------------------------------
(* Deletion groups of a block                                              *)

RECURSIVE GroupSizes(_, _)
\* the number of deleted lines in the first g groups
GroupSizes(groups, g) ==
    IF g = 0 THEN 0
    ELSE GroupSizes(groups, g - 1) + Len(groups[g].old_line_numbers)

DeletedCount(b) == GroupSizes(b.deletion_groups, Len(b.deletion_groups))

\* the group holding the block's j-th deletion, counting through the groups
\* in list order; 0 when the groups hold fewer than j deletions
GroupOfDeletion(b, j) ==
    IF \E g \in 1 .. Len(b.deletion_groups) :
           GroupSizes(b.deletion_groups, g - 1) < j /\ j <= GroupSizes(b.deletion_groups, g)
    THEN CHOOSE g \in 1 .. Len(b.deletion_groups) :
           GroupSizes(b.deletion_groups, g - 1) < j /\ j <= GroupSizes(b.deletion_groups, g)
    ELSE 0

RECURSIVE FlatOldLines(_, _)
FlatOldLines(groups, g) ==
    IF g = 0 THEN << >> ELSE FlatOldLines(groups, g - 1) \o groups[g].old_lines

RECURSIVE FlatOldNumbers(_, _)
FlatOldNumbers(groups, g) ==
    IF g = 0 THEN << >> ELSE FlatOldNumbers(groups, g - 1) \o groups[g].old_line_numbers

AddsBetween(p, q) == Cardinality({ m \in (p + 1) .. (q - 1) : AddLine(m) })

\* C5: of two successive deletions of a block, the second joins the group of
\* the first when no addition lies between them, and otherwise opens another
\* group whose anchor is larger by the number of additions between them.
C5_GroupingByAnchor ==
    /\ Len(src_blocks) = Len(blocks)
    /\ \A n \in 1 .. Len(blocks) :
         LET b == blocks[n]
             d == src_blocks[n].dels
         IN  /\ DeletedCount(b) = Len(d)
             /\ \A j \in 1 .. (Len(d) - 1) :
                  LET g1 == GroupOfDeletion(b, j)
                      g2 == GroupOfDeletion(b, j + 1)
                      a  == AddsBetween(d[j], d[j + 1])
                  IN  /\ g1 # 0 /\ g2 # 0
                      /\ a = 0 => g1 = g2
                      /\ a > 0 => /\ g1 # g2
                                  /\ b.deletion_groups[g2].anchor_line
                                       = b.deletion_groups[g1].anchor_line + a

\* one block with a group of two deletions and, after an addition, a second
\* group
C5_Witness ==
    /\ Returned
    /\ \E n \in 1 .. Len(blocks) :
         /\ Len(blocks[n].deletion_groups) = 2
         /\ Len(blocks[n].deletion_groups[1].old_line_numbers) = 2
         /\ blocks[n].deletion_groups[2].anchor_line
              = blocks[n].deletion_groups[1].anchor_line + 1

\* C6: the deletion groups of a block, read in list order, hold the block's
\* deleted lines in input order, each once; no group is empty and no two
\* adjacent groups have the same anchor.
C6_GroupsPartitionDeletions ==
    /\ Len(src_blocks) = Len(blocks)
    /\ \A n \in 1 .. Len(blocks) :
         LET gs == blocks[n].deletion_groups
             d  == src_blocks[n].dels
         IN  /\ FlatOldLines(gs, Len(gs)) = [ j \in 1 .. Len(d) |-> Tail(lines[d[j]]) ]
             /\ FlatOldNumbers(gs, Len(gs)) = [ j \in 1 .. Len(d) |-> OldAt(d[j]) ]
             /\ \A g \in 1 .. Len(gs) : gs[g].old_lines # << >>
             /\ \A g \in 1 .. (Len(gs) - 1) : gs[g].anchor_line # gs[g + 1].anchor_line

C6_Witness ==
    /\ Returned
    /\ \E n \in 1 .. Len(blocks) :
         /\ Len(blocks[n].deletion_groups) = 2
         /\ Len(src_blocks[n].dels) = 3

\* C7: old_to_new has as many entries as the block's deletion groups hold
\* deleted lines.
C7_OldToNewCount ==
    \A n \in 1 .. Len(blocks) : Len(blocks[n].old_to_new) = DeletedCount(blocks[n])

\* a block whose entries outnumber its groups
C7_Witness ==
    /\ Returned
    /\ \E n \in 1 .. Len(blocks) :
         /\ Len(blocks[n].deletion_groups) = 2
         /\ Len(blocks[n].old_to_new) = 3

\* C8: every element of changed_lines is an element of added_lines.
C8_ChangedSubsetOfAdded ==
    \A n \in 1 .. Len(blocks) :
        Range(blocks[n].changed_lines) \subseteq Range(blocks[n].added_lines)

\* a block with changed lines that are not all of its added lines
C8_Witness ==
    /\ Returned
    /\ \E n \in 1 .. Len(blocks) :
         /\ blocks[n].changed_lines # << >>
         /\ Len(blocks[n].changed_lines) < Len(blocks[n].added_lines)

\* a deletion line of the same hunk precedes line p with no context or blank
\* line from it up to p
DeletionInRunBefore(p) ==
    \E q \in 1 .. (p - 1) :
        /\ DelLine(q)
        /\ HunkOf(q) = HunkOf(p)
        /\ ~ \E m \in (q + 1) .. (p - 1) : CtxLine(m)

\* C9: the line number of an addition is in changed_lines exactly when a
\* deletion precedes the addition since the last context/blank line or hunk
\* header.
C9_ChangedIffAfterDeletion ==
    /\ Len(src_blocks) = Len(blocks)
    /\ \A n \in 1 .. Len(blocks) :
         /\ Len(src_blocks[n].adds) = Len(blocks[n].added_lines)
         /\ \A k \in 1 .. Len(blocks[n].added_lines) :
              (blocks[n].added_lines[k] \in Range(blocks[n].changed_lines))
                <=> DeletionInRunBefore(src_blocks[n].adds[k])

\* one block with an addition before its first deletion and two additions
\* after it
C9_Witness ==
    /\ Returned
    /\ \E n \in 1 .. Len(blocks) :
         /\ Len(blocks[n].added_lines) = 3
         /\ Len(blocks[n].changed_lines) = 2
         /\ blocks[n].added_lines[1] \notin Range(blocks[n].changed_lines)

\* the new-file line numbers a block touches: its added lines and the
\* anchors of its deletion groups
Touched(b) ==
    Range(b.added_lines)
      \cup { b.deletion_groups[g].anchor_line : g \in 1 .. Len(b.deletion_groups) }

\* the new-file pointer value recorded for input line p of block n
PointerAtLine(n, p) ==
    IF \E k \in 1 .. Len(src_blocks[n].adds) : src_blocks[n].adds[k] = p
    THEN blocks[n].added_lines[CHOOSE k \in 1 .. Len(src_blocks[n].adds) :
                                   src_blocks[n].adds[k] = p]
    ELSE blocks[n].old_to_new[CHOOSE j \in 1 .. Len(src_blocks[n].dels) :
                                  src_blocks[n].dels[j] = p].new_line

\* C10: start_line is the pointer value at the block's first
\* addition/deletion and end_line the value at its last one; they are the
\* least and the greatest of the block's added lines and anchors, and
\* start_line <= end_line.
C10_StartEnd ==
    /\ SrcParallel
    /\ \A n \in 1 .. Len(blocks) :
         LET b     == blocks[n]
             first == CHOOSE p \in SrcLines(n) : \A q \in SrcLines(n) : p <= q
             last  == CHOOSE p \in SrcLines(n) : \A q \in SrcLines(n) : q <= p
         IN  /\ SrcLines(n) # { }
             /\ b.start_line = PointerAtLine(n, first)
             /\ b.end_line = PointerAtLine(n, last)
             /\ b.start_line \in Touched(b) /\ b.end_line \in Touched(b)
             /\ \A t \in Touched(b) : U32Le(b.start_line, t) /\ U32Le(t, b.end_line)
             /\ U32Le(b.start_line, b.end_line)

\* a block spanning several new-file lines, and a deletion-only block
C10_Witness ==
    /\ Returned
    /\ \E n \in 1 .. Len(blocks) : blocks[n].end_line >= blocks[n].start_line + 1
    /\ \E n \in 1 .. Len(blocks) :
         /\ blocks[n].kind = "Delete"
         /\ blocks[n].start_line = blocks[n].end_line
         /\ blocks[n].start_line = blocks[n].deletion_groups[1].anchor_line

---------------------------------------------------------------------------
(* Hunks of a patch                                                        *)

\* the last line of the hunk body that header line h opens
RECURSIVE BodyEnd(_)
BodyEnd(k) ==
    IF k = Len(lines) \/ StopsBody(lines[k + 1]) THEN k ELSE BodyEnd(k + 1)

\* the blocks of the hunks whose headers are among lines 1 .. k, each hunk
\* parsed on its own, in document order
RECURSIVE HunkwiseBlocks(_)
HunkwiseBlocks(k) ==
    IF k = 0 THEN << >>
    ELSE HunkwiseBlocks(k - 1)
           \o (IF captures(lines[k]).matched
               THEN parse_patch_of(SubSeq(lines, k, BodyEnd(k)))
               ELSE << >>)

\* C11: the result for a patch is the concatenation, in document order, of
\* the blocks of each hunk parsed on its own; no block holds lines of two
\* hunks; right after a hunk header the pointers are the header's starts and
\* the builder and the in-change flag are reset.
C11_HunksAreIndependent ==
    /\ Returned => blocks = HunkwiseBlocks(Len(lines))
    /\ Len(src_blocks) = Len(blocks)
    /\ \A n \in 1 .. Len(src_blocks) :
         \A p, q \in SrcLines(n) : HunkOf(p) # 0 /\ HunkOf(p) = HunkOf(q)
    /\ (pc = "inner" /\ captures(lines[i]).matched) =>
         /\ new_line_num = NewStartOf(i)
         /\ old_line_num = OldStartOf(i)
         /\ builder = BlockBuilderDefault
         /\ in_change_block = FALSE

\* two hunks with a block each; the second block is numbered from its own
\* header although the first hunk moved the pointers
C11_Witness ==
    /\ Returned
    /\ Len(blocks) = 2
    /\ \E p \in SrcLines(1), q \in SrcLines(2) :
         /\ HunkOf(p) # HunkOf(q)
         /\ NewStartOf(HunkOf(p)) # NewStartOf(HunkOf(q))
         /\ \E m \in (HunkOf(q) + 1) .. (q - 1) : CtxLine(m)
         /\ blocks[2].start_line = NewStartOf(HunkOf(q)) + 1

---------------------------------------------------------------------------
(* File sections of a git diff, read off the input text                    *)

GitDone == gpc = "done"

\* line k of the input starts with "diff --git"
SectionStop(k) ==
    /\ Len(diff_lines[k]) >= Len(DIFF_GIT)
    /\ SubSeq(diff_lines[k], 1, Len(DIFF_GIT)) = DIFF_GIT

\* the lines that are file headers
FileHeaders == { k \in 1 .. Len(diff_lines) : file_header_re(diff_lines[k]).matched }

\* the last line of the section that line k opens
RECURSIVE SectionEnd(_)
SectionEnd(k) ==
    IF k = Len(diff_lines) \/ SectionStop(k + 1) THEN k ELSE SectionEnd(k + 1)

\* the "@@" lines of the section of header k
SectionAts(k) == { m \in (k + 1) .. SectionEnd(k) : FirstIs(diff_lines[m], "@") /\
                                                    Len(diff_lines[m]) >= 2 /\
                                                    diff_lines[m][2] = "@" }

\* the first line of the section's patch: its first "@@" line, or past the
\* section's end when it has none
PatchBegin(k) ==
    IF SectionAts(k) = { } THEN SectionEnd(k) + 1
    ELSE CHOOSE m \in SectionAts(k) : \A n \in SectionAts(k) : m <= n

SectionPatch(k) == SubSeq(diff_lines, PatchBegin(k), SectionEnd(k))

\* the headers whose sections have change blocks, in document order
RECURSIVE EmittedUpTo(_)
EmittedUpTo(k) ==
    IF k = 0 THEN << >>
    ELSE EmittedUpTo(k - 1)
           \o (IF k \in FileHeaders /\ parse_patch_of(SectionPatch(k)) # << >>
               THEN << k >> ELSE << >>)

Emitted == EmittedUpTo(Len(diff_lines))

\* C12: every listed file has at least one change block, and the listed
\* files are exactly the sections whose patch parses to at least one block.
C12_NoEmptyFiles ==
    /\ \A n \in 1 .. Len(files) : files[n].change_blocks # << >>
    /\ GitDone => Len(files) = Len(Emitted)

\* a rename-only, hunkless or context-only section was dropped while another
\* section was listed
C12_Witness ==
    /\ GitDone
    /\ Len(files) = 1
    /\ \E k \in FileHeaders :
         /\ parse_patch_of(SectionPatch(k)) = << >>
         /\ \/ SectionAts(k) = { }
            \/ \E m \in PatchBegin(k) .. SectionEnd(k) : IsCtx(diff_lines[m])

---------------------------------------------------------------------------
(* Status markers                                                          *)

HasPrefix(l, pre) == Len(l) >= Len(pre) /\ SubSeq(l, 1, Len(pre)) = pre

\* the kind a status-marker line stands for, "" for any other line
MarkerKind(l) ==
    IF HasPrefix(l, NEW_FILE) THEN "Added"
    ELSE IF HasPrefix(l, DELETED_FILE) THEN "Deleted"
    ELSE IF HasPrefix(l, RENAMED) THEN "Renamed"
    ELSE ""

\* the marker lines between header k and the first "@@" line of its section
MarkersBefore(k) ==
    { m \in (k + 1) .. (PatchBegin(k) - 1) : MarkerKind(diff_lines[m]) # "" }

\* the marker lines of the section from its first "@@" line on
MarkersAfter(k) ==
    { m \in PatchBegin(k) .. SectionEnd(k) : MarkerKind(diff_lines[m]) # "" }

\* the listed files stand for the emitted sections, one for one
FilesMatchSections == GitDone /\ Len(files) = Len(Emitted)

\* C13: a listed file is Modified when no status marker stands between its
\* header and the first "@@" line of its section, and Added / Deleted /
\* Renamed when the markers standing there are of that kind; marker lines
\* from the first "@@" line on have no effect on the status.
C13_StatusFromMarkers ==
    FilesMatchSections =>
      \A n \in 1 .. Len(files) :
        LET k == Emitted[n]
            kinds == { MarkerKind(diff_lines[m]) : m \in MarkersBefore(k) }
        IN  /\ kinds = { } => files[n].status = "Modified"
            /\ \A K \in { "Added", "Deleted", "Renamed" } :
                 kinds = { K } => files[n].status = K

\* a Modified file with a marker line inside its hunk body, listed next to
\* a file whose status a marker set
C13_Witness ==
    /\ FilesMatchSections
    /\ \E n \in 1 .. Len(files) :
         /\ MarkersBefore(Emitted[n]) = { }
         /\ MarkersAfter(Emitted[n]) # { }
         /\ files[n].status = "Modified"
    /\ \E n \in 1 .. Len(files) :
         /\ MarkersBefore(Emitted[n]) # { }
         /\ files[n].status # "Modified"

\* C14: when several status markers precede the first "@@" line of a
\* section, the first of them gives the listed file its status.
C14_FirstMarkerWins ==
    FilesMatchSections =>
      \A n \in 1 .. Len(files) :
        LET ms == MarkersBefore(Emitted[n])
        IN  ms # { } =>
              files[n].status =
                MarkerKind(diff_lines[CHOOSE m \in ms : \A q \in ms : m <= q])

\* what the code does: the last marker before the first "@@" line wins
C14_LastMarkerWins ==
    FilesMatchSections =>
      \A n \in 1 .. Len(files) :
        LET ms == MarkersBefore(Emitted[n])
        IN  ms # { } =>
              files[n].status =
                MarkerKind(diff_lines[CHOOSE m \in ms : \A q \in ms : q <= m])

\* a listed file whose section has two markers of different kinds
C14_Witness ==
    /\ FilesMatchSections
    /\ \E n \in 1 .. Len(files) :
         \E m, q \in MarkersBefore(Emitted[n]) :
           MarkerKind(diff_lines[m]) # MarkerKind(diff_lines[q])

---------------------------------------------------------------------------
(* Addition and deletion tallies                                           *)

\* line m of the input ends a hunk body
GitStopsBody(m) ==
    \/ HasPrefix(diff_lines[m], << "@", "@" >>)
    \/ HasPrefix(diff_lines[m], << "d", "i", "f", "f", " " >>)

\* line m lies in a hunk body of the section of header k
InHunkBody(k, m) ==
    /\ m \in PatchBegin(k) .. SectionEnd(k)
    /\ ~GitStopsBody(m)
    /\ \E h \in PatchBegin(k) .. (m - 1) :
         /\ captures(diff_lines[h]).matched
         /\ \A q \in (h + 1) .. m : ~GitStopsBody(q)

\* the lines of the hunk bodies of section k that start with character c
BodyLinesWith(k, c) ==
    { m \in 1 .. Len(diff_lines) : InHunkBody(k, m) /\ FirstIs(diff_lines[m], c) }

\* C15: for every listed file, additions is the number of lines of its hunk
\* bodies that start with "+", and deletions the number that start with
\* "-", whatever follows the first character.
C15_TalliesCountBodyLines ==
    FilesMatchSections =>
      \A n \in 1 .. Len(files) :
        /\ files[n].additions = Cardinality(BodyLinesWith(Emitted[n], "+"))
        /\ files[n].deletions = Cardinality(BodyLinesWith(Emitted[n], "-"))

\* what the code does: it tallies the lines of the section, from the first
\* "@@" line on, that start with "+" or "-" followed by a different character
C15_TalliesFollowPatterns ==
    FilesMatchSections =>
      \A n \in 1 .. Len(files) :
        LET sec == PatchBegin(Emitted[n]) .. SectionEnd(Emitted[n])
            Two(m, c) == /\ Len(diff_lines[m]) >= 2
                         /\ diff_lines[m][1] = c
                         /\ diff_lines[m][2] # c
        IN  /\ files[n].additions = Cardinality({ m \in sec : Two(m, "+") })
            /\ files[n].deletions = Cardinality({ m \in sec : Two(m, "-") })

\* a listed file with an added empty line in a hunk body
C15_Witness ==
    /\ FilesMatchSections
    /\ \E n \in 1 .. Len(files) :
         \E m \in BodyLinesWith(Emitted[n], "+") : Len(diff_lines[m]) = 1

---------------------------------------------------------------------------
(* Order and paths of the listed files                                     *)

\* the text after the last " b/" of a file header line
PostImage(l) ==
    LET ps == { p \in 1 .. (Len(l) - 3) : SubSeq(l, p, p + 2) = << " ", "b", "/" >> }
    IN  SubSeq(l, (CHOOSE p \in ps : \A q \in ps : q <= p) + 3, Len(l))

\* C16: the listed files follow the document order of their file headers,
\* at most one file per header, each with the post-image path of its own
\* header.
C16_FilesInHeaderOrder ==
    /\ Len(files) <= Cardinality({ k \in FileHeaders : k <= di })
    /\ GitDone =>
         /\ Len(files) = Len(Emitted)
         /\ \A n \in 1 .. Len(files) :
              files[n].path = PostImage(diff_lines[Emitted[n]])

\* two files with different paths are listed, the first from a rename
\* header whose two paths differ
C16_Witness ==
    /\ GitDone
    /\ Len(files) = 2
    /\ Len(Emitted) = 2
    /\ files[1].path # files[2].path
    /\ diff_lines[Emitted[1]] = FH_R
    /\ files[1].path = << "g" >>

---------------------------------------------------------------------------
(* The "\ No newline" marker                                               *)

NoNewlineLine(l) == HasPrefix(l, << "\\", " ", "N", "o", " ", "n", "e", "w", "l", "i", "n", "e" >>)

\* ls without its "\ No newline" lines
WithoutNoNewline(ls) == SelectSeq(ls, LAMBDA l : ~NoNewlineLine(l))

---------------------------------------------------------------------------
(* Inputs without changes                                                  *)

\* no line of the patch starts with "+" or "-"
NoChangeLines == \A m \in 1 .. Len(lines) : ~FirstIs(lines[m], "+") /\ ~FirstIs(lines[m], "-")

\* C18: parse_patch returns, without failing, the empty list for an empty
\* patch, for a patch with no "+"/"-" line and for hunks of context lines
\* only; parse_git_diff returns the empty list for an empty input.
C18_NothingFromNoChanges ==
    /\ pc # "panicked"
    /\ (pc = "done" /\ NoChangeLines) => blocks = << >>
    /\ (GitDone /\ diff_lines = << >>) => files = << >>
    /\ (GitDone /\ \A k \in FileHeaders : (\A m \in 1 .. Len(diff_lines) :
                                             InHunkBody(k, m) => IsCtx(diff_lines[m])))
         => files = << >>

\* parse_patch has returned from a hunk holding context lines only
C18_Witness ==
    /\ pc = "done"
    /\ NoChangeLines
    /\ Len(lines) >= 3
    /\ captures(lines[1]).matched
    /\ \A m \in 2 .. Len(lines) : IsCtx(lines[m])
    /\ blocks = << >>

---------------------------------------------------------------------------
(* Malformed hunk headers                                                  *)

\* line k starts with "@@" and is no hunk header
Malformed(k) ==
    /\ Len(lines[k]) >= 2 /\ lines[k][1] = "@" /\ lines[k][2] = "@"
    /\ ~captures(lines[k]).matched

ChangeLine(k) == FirstIs(lines[k], "+") \/ FirstIs(lines[k], "-")

\* the blocks that hold input line k
BlocksHolding(k) == { n \in 1 .. Len(src_blocks) : k \in SrcLines(n) }

\* C19: a line starting with "@@" that is no hunk header never makes
\* parse_patch fail; at return every "+"/"-" line in the body of a valid
\* hunk is in exactly one block, every "+"/"-" line outside such a body
\* (after a malformed header, before the next valid one) is in no block,
\* and the blocks are those of the valid hunks, in order.
C19_MalformedHeaderSkipped ==
    /\ pc # "panicked"
    /\ Returned =>
         /\ Len(src_blocks) = Len(blocks)
         /\ \A k \in 1 .. Len(lines) :
              ChangeLine(k) =>
                Cardinality(BlocksHolding(k)) = (IF HunkOf(k) # 0 THEN 1 ELSE 0)
         /\ blocks = HunkwiseBlocks(Len(lines))

\* a malformed header, a "+"/"-" line after it that is in no block, and a
\* valid hunk after both that yields a block
C19_Witness ==
    /\ Returned
    /\ \E m, k, q \in 1 .. Len(lines) :
         /\ Malformed(m)
         /\ m < k /\ k < q
         /\ ChangeLine(k) /\ LastStop(k) = m /\ BlocksHolding(k) = { }
         /\ ChangeLine(q) /\ HunkOf(q) > k /\ BlocksHolding(q) # { }

---------------------------------------------------------------------------
(* Line counters at the end of their range                                 *)

\* C20: parse_patch never panics and its line counters never overflow: no
\* step fails, and inside a hunk body neither pointer has fallen below the
\* start its header gave it.
C20_NoPanicNoOverflow ==
    /\ pc # "panicked"
    /\ pc = "inner" =>
         /\ U32Le(NewStartOf(OpenHunk), new_line_num)
         /\ U32Le(OldStartOf(OpenHunk), old_line_num)

\* a build with overflow checks has panicked on the line after a header
\* whose start is u32::MAX
C20_Witness ==
    /\ pc = "panicked"
    /\ i = 1
    /\ lines[1] = H_MAX
    /\ new_line_num = U32_MAX

\* a build without overflow checks returns a block that starts at u32::MAX
\* and ends at line 0
C20_WrappedBlock ==
    /\ Returned
    /\ \E n \in 1 .. Len(blocks) :
         blocks[n].start_line = U32_MAX /\ blocks[n].end_line = 0

---------------------------------------------------------------------------
(* Termination                                                             *)

\* what is left for the loops of parse_git_diff: the lines not yet consumed,
\* then the loops that can still run with the cursor where it is
GitRank ==
    5 * (Len(diff_lines) - di)
      + (IF gpc = "status" THEN 4 ELSE IF gpc = "collect" THEN 3
         ELSE IF gpc = "parse" THEN 2 ELSE IF gpc = "scan" THEN 1 ELSE 0)

\* the same for the loops of parse_patch
PatchRank ==
    3 * (Len(lines) - i)
      + (IF pc = "inner" THEN 2 ELSE IF pc = "outer" THEN 1 ELSE 0)

\* C21: parse_git_diff and the parse_patch calls it makes terminate: every
\* step either advances a line cursor or leaves a loop whose enclosing loop
\* then advances it (the ranks never go below zero and every step lowers
\* them), and the function returns.
C21_Terminates ==
    /\ [](GitRank >= 0 /\ PatchRank >= 0)
    /\ [][\/ GitRank' < GitRank
          \/ GitRank' = GitRank /\ PatchRank' < PatchRank]_vars
    /\ <>(gpc = "done")

\* parse_git_diff has returned from an input in which the hunk-body loop
\* broke on a line the outer loop then stepped over, and the collection loop
\* stopped at a file header the outer scan then consumed
C21_Witness ==
    /\ gpc = "done"
    /\ files # << >>
    /\ \E m \in 1 .. Len(diff_lines) : diff_lines[m] = ATX

---------------------------------------------------------------------------
(* Calls do not influence each other                                       *)

\* nothing of a parse_patch call is left in its locals
PatchLocalsGone ==
    /\ new_line_num = 0 /\ old_line_num = 0
    /\ builder = BlockBuilderDefault
    /\ in_change_block = FALSE

\* C22: what a call returns depends on its text alone: whenever parse_patch
\* returns, whatever was parsed before, its blocks are parse_patch_of its
\* text, they equal the blocks an earlier call returned for the same text,
\* and no pointer, flag or open block is left; parse_git_diff returns
\* parse_git_diff_of its text.
C22_CallsAreIndependent ==
    /\ pc = "done" =>
         /\ blocks = parse_patch_of(lines)
         /\ PatchLocalsGone
         /\ \A n \in 1 .. Len(files) :
              SectionPatch(Emitted[n]) = lines => files[n].change_blocks = blocks
    /\ GitDone =>
         /\ files = parse_git_diff_of(diff_lines)
         /\ PatchLocalsGone
         /\ path = << >> /\ status = "Modified" /\ patch_lines = << >>
         /\ additions = 0 /\ deletions = 0

\* parse_patch returns for the second time from the same text, after a
\* first call that left a block
C22_Witness ==
    /\ pc = "done"
    /\ Len(files) = 1
    /\ lines # << >>
    /\ SectionPatch(Emitted[1]) = lines
    /\ blocks # << >>

---------------------------------------------------------------------------
(* Line numbers start at 1                                                 *)

AtLeastOne(x) == U32Le(1, x)

\* C23: every line number of every emitted block is at least 1.
C23_LineNumbersAtLeastOne ==
    \A n \in 1 .. Len(blocks) :
      /\ AtLeastOne(blocks[n].start_line) /\ AtLeastOne(blocks[n].end_line)
      /\ \A k \in 1 .. Len(blocks[n].added_lines) : AtLeastOne(blocks[n].added_lines[k])
      /\ \A k \in 1 .. Len(blocks[n].changed_lines) : AtLeastOne(blocks[n].changed_lines[k])
      /\ \A g \in 1 .. Len(blocks[n].deletion_groups) :
           /\ AtLeastOne(blocks[n].deletion_groups[g].anchor_line)
           /\ \A k \in 1 .. Len(blocks[n].deletion_groups[g].old_line_numbers) :
                AtLeastOne(blocks[n].deletion_groups[g].old_line_numbers[k])
      /\ \A k \in 1 .. Len(blocks[n].old_to_new) :
           /\ AtLeastOne(blocks[n].old_to_new[k].old_line)
           /\ AtLeastOne(blocks[n].old_to_new[k].new_line)

\* the hunk of a deleted file has been parsed: its block starts at line 0
\* and its deletions are anchored there
C23_Witness ==
    /\ Returned
    /\ lines[1] = H_DELETED
    /\ Len(blocks) = 1
    /\ blocks[1].kind = "Delete"
    /\ blocks[1].start_line = 0
    /\ blocks[1].deletion_groups[1].anchor_line = 0
    /\ blocks[1].old_to_new[1].new_line = 0

---------------------------------------------------------------------------
(* Blocks and the new-file lines of their hunk                             *)

\* the hunk of block n
BlockHunk(n) == HunkOf(CHOOSE p \in SrcLines(n) : TRUE)

\* the last new-file line hunk h covers: new_start plus its context/blank
\* and addition lines, minus one
LastNewLine(h) == NewAfter(h, BodyEnd(h)) - 1

\* C24 as stated: start_line and end_line of every block lie between the
\* new_start of the block's hunk and the last new-file line the hunk covers.
C24_WithinHunk ==
    Returned =>
      \A n \in 1 .. Len(src_blocks) :
        /\ NewStartOf(BlockHunk(n)) <= blocks[n].start_line
        /\ blocks[n].start_line <= LastNewLine(BlockHunk(n))
        /\ NewStartOf(BlockHunk(n)) <= blocks[n].end_line
        /\ blocks[n].end_line <= LastNewLine(BlockHunk(n))

\* C24, amended: start_line and end_line of every block lie between the
\* new_start of the block's hunk and one line past the last new-file line
\* the hunk covers (where a deletion that ends the hunk is anchored).
C24_WithinHunkOrJustPast ==
    Returned =>
      \A n \in 1 .. Len(src_blocks) :
        /\ NewStartOf(BlockHunk(n)) <= blocks[n].start_line
        /\ blocks[n].start_line <= blocks[n].end_line
        /\ blocks[n].end_line <= LastNewLine(BlockHunk(n)) + 1

\* a block made of the deletion that ends its hunk
C24_Witness ==
    /\ Returned
    /\ \E n \in 1 .. Len(src_blocks) :
         /\ blocks[n].kind = "Delete"
         /\ blocks[n].start_line = LastNewLine(BlockHunk(n)) + 1
         /\ \E m \in (BlockHunk(n) + 1) .. BodyEnd(BlockHunk(n)) : CtxLine(m)

---------------------------------------------------------------------------
(* Lines that start with a doubled marker                                  *)

Doubled(k) ==
    /\ Len(lines[k]) >= 2
    /\ lines[k][1] = lines[k][2]
    /\ lines[k][1] \in { "+", "-" }

\* C25: a line starting with "--" or "++" is neither a Deletion nor an
\* Addition: it is in no block, wherever it stands.
C25_DoubledMarkersAreOther ==
    \A n \in 1 .. Len(src_blocks) : \A k \in SrcLines(n) : ~Doubled(k)

\* what the code does: inside a hunk body a "--" line is a deletion and a
\* "++" line an addition like any other "-" or "+" line
C25_DoubledMarkersAreChanges ==
    Returned =>
      \A k \in 1 .. Len(lines) :
        (Doubled(k) /\ HunkOf(k) # 0) => \E n \in 1 .. Len(src_blocks) : k \in SrcLines(n)

\* a "--x" line of a hunk body was recorded as the deletion of "-x"
C25_Witness ==
    /\ Returned
    /\ \E n \in 1 .. Len(blocks) :
         /\ \E k \in Range(src_blocks[n].dels) : lines[k] = DEL_DASH
         /\ \E g \in 1 .. Len(blocks[n].deletion_groups) :
              << "-", "x" >> \in Range(blocks[n].deletion_groups[g].old_lines)

---------------------------------------------------------------------------
(* Lines of no class                                                       *)

\* line k is none of: addition, deletion, context or blank line, valid hunk
\* header, file header, status marker, "\ No newline" marker
Unclassified(k) ==
    /\ ~FirstIs(lines[k], "+") /\ ~FirstIs(lines[k], "-")
    /\ ~IsCtx(lines[k])
    /\ ~captures(lines[k]).matched
    /\ ~file_header_re(lines[k]).matched
    /\ MarkerKind(lines[k]) = ""
    /\ ~NoNewlineLine(lines[k])

\* ls without its k-th line
Without(ls, k) == SubSeq(ls, 1, k - 1) \o SubSeq(ls, k + 1, Len(ls))

---------------------------------------------------------------------------
(* Hunks and the file they belong to                                       *)

\* the last line before the next file header after line k, or the last line
RECURSIVE FileEnd(_)
FileEnd(k) ==
    IF k = Len(diff_lines) \/ (k + 1) \in FileHeaders THEN k ELSE FileEnd(k + 1)

\* the lines between file header k and the next file header or the end
FileLines(k) == SubSeq(diff_lines, k + 1, FileEnd(k))

\* C27: all lines between a file header and the next file header (or the
\* end) are parsed as part of that file: if they hold a change, a file with
\* the header's path and exactly their blocks is listed.
C27_HunksBelongToLastHeader ==
    GitDone =>
      \A k \in FileHeaders :
        parse_patch_of(FileLines(k)) # << >> =>
          \E n \in 1 .. Len(files) :
            /\ files[n].path = PostImage(diff_lines[k])
            /\ files[n].change_blocks = parse_patch_of(FileLines(k))

\* what the code does: a file's lines end at the next line that starts with
\* "diff --git", file header or not, and the hunks after a line that is not
\* a file header belong to no file
C27_SectionsEndAtDiffGit ==
    FilesMatchSections =>
      \A n \in 1 .. Len(files) :
        files[n].change_blocks = parse_patch_of(SectionPatch(Emitted[n]))

\* a hunk with a change follows a "diff --git" line that is no file header,
\* and is in no listed file
C27_Witness ==
    /\ GitDone
    /\ Len(files) = 1
    /\ \E k \in FileHeaders :
         /\ SectionEnd(k) < FileEnd(k)
         /\ Len(files[1].change_blocks) < Len(parse_patch_of(FileLines(k)))

---------------------------------------------------------------------------
(* File sections are parsed independently                                  *)

\* the places at which the input splits into two texts that each start with
\* a file header
Splits ==
    IF 1 \in FileHeaders THEN { k \in FileHeaders : k > 1 } ELSE { }

\* C28: for texts A and B that each start with a file header, what
\* parse_git_diff returns for A followed by B is what it returns for A
\* followed by what it returns for B.
C28_SectionsIndependent ==
    GitDone =>
      \A k \in Splits :
        files = parse_git_diff_of(SubSeq(diff_lines, 1, k - 1))
                  \o parse_git_diff_of(SubSeq(diff_lines, k, Len(diff_lines)))

\* a file that a marker made Added, with its own tallies, is followed by a
\* Modified file from the next section
C28_Witness ==
    /\ GitDone
    /\ Splits # { }
    /\ Len(files) = 2
    /\ files[1].status = "Added" /\ files[2].status = "Modified"
    /\ files[1].additions > 0 /\ files[2].deletions = 0
    /\ files[1].change_blocks # files[2].change_blocks

---------------------------------------------------------------------------
(* Hunk headers without counts                                             *)

\* C29: a header without counts is accepted like the header with both
\* counts 1: the pointers start at its two numbers, and the patch parses to
\* the blocks of the same body under "@@ -5,1 +7,1 @@".
C29_OmittedCountIsOne ==
    lines[1] = H_NO_COUNT =>
      /\ (pc = "inner" /\ i = 1) => (old_line_num = 5 /\ new_line_num = 7)
      /\ Returned => blocks = parse_patch_of(<< H_COUNT_1 >> \o Tail(lines))

\* a patch under the header without counts has returned a Change block
C29_Witness ==
    /\ Returned
    /\ lines[1] = H_NO_COUNT
    /\ \E n \in 1 .. Len(blocks) :
         /\ blocks[n].kind = "Change"
         /\ blocks[n].start_line = 7
         /\ blocks[n].old_to_new[1].old_line = 5

---------------------------------------------------------------------------
(* Deletion groups: texts and numbers                                      *)

\* C30: in every emitted deletion group old_lines and old_line_numbers are
\* parallel: they have the same length, at least 1, and entry k of
\* old_line_numbers is the old-file line number of entry k of old_lines,
\* which is a deletion line of the patch without its leading "-".
C30_OldLinesParallel ==
    /\ Len(src_blocks) = Len(blocks)
    /\ \A n \in 1 .. Len(blocks) :
         LET gs == blocks[n].deletion_groups
             d  == src_blocks[n].dels
         IN  /\ \A g \in 1 .. Len(gs) :
                  /\ Len(gs[g].old_lines) = Len(gs[g].old_line_numbers)
                  /\ Len(gs[g].old_lines) >= 1
             /\ GroupSizes(gs, Len(gs)) = Len(d)
             /\ \A g \in 1 .. Len(gs) : \A k \in 1 .. Len(gs[g].old_lines) :
                  LET j == GroupSizes(gs, g - 1) + k
                  IN  /\ DelLine(d[j])
                      /\ << "-" >> \o gs[g].old_lines[k] = lines[d[j]]
                      /\ gs[g].old_line_numbers[k] = OldAt(d[j])

\* a returned block holds a group of two deletions and, after an addition,
\* a second group
C30_Witness ==
    /\ Returned
    /\ \E n \in 1 .. Len(blocks) :
         /\ Len(blocks[n].deletion_groups) = 2
         /\ Len(blocks[n].deletion_groups[1].old_lines) = 2
         /\ blocks[n].deletion_groups[1].old_line_numbers[2]
              = blocks[n].deletion_groups[1].old_line_numbers[1] + 1

---------------------------------------------------------------------------
(* old_to_new and the deletion groups                                      *)

\* the pairs (old_line_numbers[k], anchor_line) of one group, in order
GroupPairs(g) ==
    [ k \in 1 .. Len(g.old_line_numbers) |->
        [ old_line |-> g.old_line_numbers[k], new_line |-> g.anchor_line ] ]

RECURSIVE FlatPairs(_, _)
\* the pairs of the first g groups, group by group
FlatPairs(groups, g) ==
    IF g = 0 THEN << >> ELSE FlatPairs(groups, g - 1) \o GroupPairs(groups[g])

\* C33: in every emitted block old_to_new is the flattening of
\* deletion_groups: the pairs (old_line_numbers[k], anchor_line), listed
\* group by group and in order, are the (old_line, new_line) entries of
\* old_to_new.
C33_OldToNewIsFlattening ==
    \A n \in 1 .. Len(blocks) :
        blocks[n].old_to_new
          = FlatPairs(blocks[n].deletion_groups, Len(blocks[n].deletion_groups))

\* a returned block whose deletions lie in two groups with different anchors
C33_Witness ==
    /\ Returned
    /\ \E n \in 1 .. Len(blocks) :
         /\ Len(blocks[n].deletion_groups) = 2
         /\ Len(blocks[n].old_to_new) = 2
         /\ blocks[n].old_to_new[1].new_line # blocks[n].old_to_new[2].new_line

---------------------------------------------------------------------------
(* Tallies and blocks                                                      *)

RECURSIVE SumOver(_, _, _)
\* the sum of Len(bs[n][field]) over the first n blocks
SumOver(bs, n, field) ==
    IF n = 0 THEN 0 ELSE SumOver(bs, n - 1, field) + Len(bs[n][field])

\* C34: for every listed file the tallies agree with the blocks: additions
\* is the total number of added_lines entries of its change_blocks, and
\* deletions the total number of their old_to_new entries.
C34_TalliesAgreeWithBlocks ==
    \A n \in 1 .. Len(files) :
        LET bs == files[n].change_blocks
        IN  /\ files[n].additions = SumOver(bs, Len(bs), "added_lines")
            /\ files[n].deletions = SumOver(bs, Len(bs), "old_to_new")

\* a listed file whose blocks hold more added lines than its tally counts
C34_Witness ==
    /\ GitDone
    /\ \E n \in 1 .. Len(files) :
         LET bs == files[n].change_blocks
         IN  files[n].additions < SumOver(bs, Len(bs), "added_lines")

---------------------------------------------------------------------------
(* Blocks of one hunk in the new file                                      *)

\* C35: two consecutive blocks of one hunk are ordered and disjoint in
\* new-file coordinates: the later block's start_line is greater than the
\* earlier block's end_line.
C35_BlocksOfHunkDisjoint ==
    /\ SrcParallel
    /\ \A n \in 1 .. (Len(blocks) - 1) :
         BlockHunk(n) = BlockHunk(n + 1) =>
             blocks[n + 1].start_line > blocks[n].end_line

\* two blocks of one hunk returned, the first ending with a deletion, so
\* that the second starts on the line right after the first one's end
C35_Witness ==
    /\ Returned
    /\ \E n \in 1 .. (Len(blocks) - 1) :
         /\ BlockHunk(n) = BlockHunk(n + 1)
         /\ blocks[n].deletion_groups # << >>
         /\ blocks[n + 1].start_line = blocks[n].end_line + 1

---------------------------------------------------------------------------
(* Anchors and added lines inside a block                                  *)

\* C36: within an emitted block the anchors of successive deletion groups
\* are strictly increasing, and every anchor_line and every added_lines
\* entry lies in [start_line, end_line].
C36_AnchorsIncreaseInRange ==
    \A n \in 1 .. Len(blocks) :
        LET b  == blocks[n]
            gs == b.deletion_groups
        IN  /\ \A g \in 1 .. (Len(gs) - 1) :
                 gs[g].anchor_line < gs[g + 1].anchor_line
            /\ \A g \in 1 .. Len(gs) :
                 b.start_line <= gs[g].anchor_line /\ gs[g].anchor_line <= b.end_line
            /\ \A k \in 1 .. Len(b.added_lines) :
                 b.start_line <= b.added_lines[k] /\ b.added_lines[k] <= b.end_line

\* a returned block with two groups around an added line, whose range spans
\* two lines
C36_Witness ==
    /\ Returned
    /\ \E n \in 1 .. Len(blocks) :
         /\ Len(blocks[n].deletion_groups) = 2
         /\ blocks[n].added_lines # << >>
         /\ blocks[n].deletion_groups[1].anchor_line = blocks[n].start_line
         /\ blocks[n].deletion_groups[2].anchor_line = blocks[n].end_line
         /\ blocks[n].end_line = blocks[n].start_line + 1

---------------------------------------------------------------------------
(* Added lines of a block                                                  *)

\* C37: within an emitted block added_lines is a run of consecutive
\* integers; the lines between two additions of a block are deletions,
\* no-newline markers and lines no branch takes, none of them a context,
\* blank or addition line.
C37_AddedLinesConsecutive ==
    /\ Len(src_blocks) = Len(blocks)
    /\ \A n \in 1 .. Len(blocks) :
         /\ Len(src_blocks[n].adds) = Len(blocks[n].added_lines)
         /\ \A k \in 1 .. (Len(blocks[n].added_lines) - 1) :
              /\ blocks[n].added_lines[k + 1] = blocks[n].added_lines[k] + 1
              /\ \A m \in (src_blocks[n].adds[k] + 1) .. (src_blocks[n].adds[k + 1] - 1) :
                   /\ ~IsCtx(lines[m])
                   /\ ~FirstIs(lines[m], "+")

\* a returned block with two added lines and a deletion between them
C37_Witness ==
    /\ Returned
    /\ \E n \in 1 .. Len(blocks) :
         /\ Len(blocks[n].added_lines) = 2
         /\ \E m \in (src_blocks[n].adds[1] + 1) .. (src_blocks[n].adds[2] - 1) :
              FirstIs(lines[m], "-")

---------------------------------------------------------------------------
(* Old-file numbers of a block                                             *)

\* C38: within an emitted block the old_line values of old_to_new, which
\* are the old_line_numbers concatenated over the groups, increase by
\* exactly one from entry to entry, also from one group to the next, and
\* the new_line values never decrease.
C38_OldLinesConsecutive ==
    \A n \in 1 .. Len(blocks) :
        LET m  == blocks[n].old_to_new
            gs == blocks[n].deletion_groups
        IN  /\ FlatOldNumbers(gs, Len(gs)) = [ j \in 1 .. Len(m) |-> m[j].old_line ]
            /\ \A j \in 1 .. (Len(m) - 1) :
                 /\ m[j + 1].old_line = m[j].old_line + 1
                 /\ m[j].new_line <= m[j + 1].new_line

\* a returned block whose two deletions lie in different groups: their old
\* lines are consecutive and their new lines differ
C38_Witness ==
    /\ Returned
    /\ \E n \in 1 .. Len(blocks) :
         /\ Len(blocks[n].old_to_new) = 2
         /\ Len(blocks[n].deletion_groups) = 2
         /\ blocks[n].old_to_new[2].old_line = blocks[n].old_to_new[1].old_line + 1
         /\ blocks[n].old_to_new[1].new_line < blocks[n].old_to_new[2].new_line

---------------------------------------------------------------------------
(* The options of the `diff` command                                       *)

\* get_local_diff has gone through parse_local_diff_mode
ModeStepTaken == lpc \notin { "none", "root", "err_root", "mode" }

\* get_local_diff has just gone through resolve_local_diff_target
JustResolved == lpc \in { "diff", "err_target" }

\* C31: parse_local_diff_mode returns an error exactly when cached_only and
\* uncached_only are both set; otherwise CachedOnly when cached_only is set,
\* UncachedOnly when uncached_only is set, and All when neither is.
C31_ModeFromFlags ==
    ModeStepTaken =>
      /\ lpc = "err_mode" <=> (opts.cached_only /\ opts.uncached_only)
      /\ lpc # "err_mode" =>
           /\ opts.cached_only => mode = "CachedOnly"
           /\ opts.uncached_only => mode = "UncachedOnly"
           /\ (~opts.cached_only /\ ~opts.uncached_only) => mode = "All"

\* the command has stopped at the conflict of the two flags, before any
\* target was resolved or diff taken
C31_Witness ==
    /\ lpc = "err_mode"
    /\ opts.cached_only /\ opts.uncached_only
    /\ Len(git_log) = 1

\* the last entry of git_log is a call of `git merge-base HEAD t`
MergeBaseAsked(t) ==
    /\ git_log # << >>
    /\ git_log[Len(git_log)].cmd = "merge-base"
    /\ git_log[Len(git_log)].args = << "HEAD", t >>

\* the target given, HEAD if none
GivenOrHead == IF opts.target = << >> THEN "HEAD" ELSE opts.target[1]

\* the commits git merge-base can answer
MergeBases == { r.v : r \in { x \in MergeBaseResults : x.ok } }

\* the target resolve_local_diff_target returns outside UncachedOnly mode
ResolvedTarget ==
    /\ Len(diff_target) = 1
    /\ IF opts.merge_base
       THEN diff_target[1] \in MergeBases
       ELSE diff_target[1] = GivenOrHead

\* C32 as stated: in UncachedOnly mode resolve_local_diff_target returns an
\* error if a target is given or merge_base is set and otherwise no target;
\* in every other mode it returns a target, HEAD when none is given, replaced
\* by the merge-base of HEAD and the target when merge_base is set.
C32_TargetResolved ==
    JustResolved =>
      IF mode = "UncachedOnly"
      THEN /\ lpc = "err_target" <=> (opts.target # << >> \/ opts.merge_base)
           /\ lpc # "err_target" => diff_target = << >>
      ELSE /\ lpc # "err_target"
           /\ ResolvedTarget

\* C32, amended: as stated, except that outside UncachedOnly mode with
\* merge_base set the function asks git for the merge-base of HEAD and the
\* target and returns an error when git fails.
C32_TargetResolvedUnlessGitFails ==
    JustResolved =>
      IF mode = "UncachedOnly"
      THEN /\ lpc = "err_target" <=> (opts.target # << >> \/ opts.merge_base)
           /\ lpc # "err_target" => diff_target = << >>
           /\ ~MergeBaseAsked(GivenOrHead)
      ELSE /\ opts.merge_base <=> MergeBaseAsked(GivenOrHead)
           /\ lpc = "err_target" <=>
                (opts.merge_base /\ ~git_log[Len(git_log)].ok)
           /\ lpc # "err_target" => ResolvedTarget

\* the target was replaced by the merge-base of HEAD and main
C32_Witness ==
    /\ lpc = "diff"
    /\ mode = "All"
    /\ opts.target = << "main" >>
    /\ MergeBaseAsked("main")
    /\ diff_target = << "mb1" >>

---------------------------------------------------------------------------
(* The `fetch` command: commits before the diff                            *)

\* entry e of git_log is an availability check of commit sha
IsCheck(e, sha) == e.cmd = "cat-file" /\ e.args = << "-e", sha >>

\* entry e of git_log is a fetch of ref from the remote
IsFetch(e, ref) == e.cmd = "fetch" /\ e.args[3] = ref

\* before entry k, the latest availability check of sha succeeded
ConfirmedBefore(sha, k) ==
    \E j \in 1 .. (k - 1) :
        /\ IsCheck(git_log[j], sha)
        /\ git_log[j].ok
        /\ \A m \in (j + 1) .. (k - 1) : ~IsCheck(git_log[m], sha)

\* entry k is a check that follows a fetch attempt
IsRecheck(k) ==
    /\ k > 1
    /\ git_log[k].cmd = "cat-file"
    /\ git_log[k - 1].cmd = "fetch"

\* C39: the diff of the pull request is computed only after the base and
\* the head commit have been confirmed present; a fetch is attempted only
\* for a commit whose check has just failed; after the fetch attempts (for
\* the head the branch ref and then pull/<n>/head, either of which may fail)
\* the commit is checked again, and if it is still missing the command
\* fails with no diff parsed and nothing printed.
C39_DiffAfterCommitsConfirmed ==
    /\ \A k \in 1 .. Len(git_log) :
         git_log[k].cmd = "diff" =>
             /\ ConfirmedBefore(BASE_SHA, k) /\ ConfirmedBefore(HEAD_SHA, k)
             /\ { BASE_SHA, HEAD_SHA } \subseteq present
    /\ (pr_files # << >> \/ printed # << >>) =>
         \E k \in 1 .. Len(git_log) : git_log[k].cmd = "diff" /\ git_log[k].ok
    /\ \A k \in 1 .. Len(git_log) :
         git_log[k].cmd = "fetch" =>
             /\ k > 1
             /\ IsFetch(git_log[k], BASE_REF) =>
                    IsCheck(git_log[k - 1], BASE_SHA) /\ ~git_log[k - 1].ok
             /\ IsFetch(git_log[k], HEAD_REF) =>
                    IsCheck(git_log[k - 1], HEAD_SHA) /\ ~git_log[k - 1].ok
             /\ IsFetch(git_log[k], PULL_REF) => IsFetch(git_log[k - 1], HEAD_REF)
             /\ IF k < Len(git_log)
                THEN /\ IsFetch(git_log[k], BASE_REF) =>
                            git_log[k].ok /\ IsCheck(git_log[k + 1], BASE_SHA)
                     /\ IsFetch(git_log[k], HEAD_REF) => IsFetch(git_log[k + 1], PULL_REF)
                     /\ IsFetch(git_log[k], PULL_REF) => IsCheck(git_log[k + 1], HEAD_SHA)
                ELSE /\ IsFetch(git_log[k], BASE_REF) =>
                            fpc = (IF git_log[k].ok THEN "base_recheck" ELSE "err_base_fetch")
                     /\ IsFetch(git_log[k], HEAD_REF) => fpc = "head_fetch_pull"
                     /\ IsFetch(git_log[k], PULL_REF) => fpc = "head_recheck"
    /\ \A k \in 1 .. Len(git_log) :
         (IsRecheck(k) /\ ~git_log[k].ok) =>
             /\ k = Len(git_log)
             /\ fpc = (IF IsCheck(git_log[k], BASE_SHA) THEN "err_base" ELSE "err_head")
             /\ pr_files = << >>
             /\ printed = << >>

\* the head commit was missing, the fetch of the branch ref failed, the
\* fetch of pull/<n>/head succeeded, and the diff was parsed and printed
C39_Witness ==
    /\ fpc = "done"
    /\ Len(printed) = 1
    /\ printed[1].files # << >>
    /\ \E k \in 1 .. (Len(git_log) - 1) :
         /\ IsFetch(git_log[k], HEAD_REF) /\ ~git_log[k].ok
         /\ IsFetch(git_log[k + 1], PULL_REF) /\ git_log[k + 1].ok

=============================================================================
